---------------------------- MODULE Spec2Model ----------------------------
(***************************************************************************)
(* Model of adicionar_info_de_ctes_em_nfes: the 44-digit key (chave.rs),   *)
(* the relationship graph (informacoes.rs), the aggregation pass           *)
(* (processor.rs) and the enrichment pass (utils.rs).                      *)
(*                                                                         *)
(* Text is a sequence of bytes (0..255).  A HashMap<Chave, HashSet<Chave>> *)
(* is a function whose DOMAIN is the set of keys present.  An Option<T> is *)
(* a record [some, val] and a SpedResult<T> a record [ok, val, err].  A    *)
(* csv record carries the raw text of its key cell and how the reader      *)
(* read it; a text file is a sequence of lines, each readable or not.      *)
(***************************************************************************)
EXTENDS Integers, Sequences, FiniteSets, Bags, TLC

VARIABLES
    \* ---- Chave (chave.rs) ----
    texto,        \* the input text handed to Chave::new / deserialize
    chave,        \* Option<Chave>: the value obtained
    origem,       \* how `chave` was obtained: "new" | "default" | "deserialize"
    copia,        \* Option<Chave>: a copy of `chave` (derive(Copy, Clone))
    forma,        \* which textual form was produced: "as_str" | "serialize"
    ser,          \* the textual form produced from `chave`
    volta,        \* Option<Chave>: the result of parsing `ser` again
    pcK           \* position of the key scenario

varsChave == <<texto, chave, origem, copia, forma, ser, volta, pcK>>

VARIABLES
    \* ---- Informacoes (informacoes.rs) ----
    nfe_ctes,                \* HashMap<Chave, HashSet<Chave>>: NFe -> CTes
    cte_nfes,                \* HashMap<Chave, HashSet<Chave>>: CTe -> NFes
    cte_complementar,        \* HashMap<Chave, HashSet<Chave>>: CTe -> CTes
    numero_total_de_linhas,  \* usize
    antes,                   \* the three maps as they were before the last call
    pcI                      \* position of the graph scenario / of run()

varsInfo == <<nfe_ctes, cte_nfes, cte_complementar, numero_total_de_linhas, antes, pcI>>

VARIABLES
    \* ---- aggregation (processor.rs) ----
    linhas,      \* the data rows of the dataset, in file order
    proxima,     \* index of the next row the shared iterator (par_bridge) hands out
    parciais,    \* bag of SummaryPair: the fold accumulators / partial results
    resultado,   \* Option<SummaryPair>: what the aggregation returned
    fase,        \* position of the aggregation
    \* ---- DocSummary::merge scenario ----
    s1, s2, s3,  \* three summaries of one key
    esq,         \* Option<DocSummary>: (s1.merge(s2)).merge(s3)
    dir,         \* Option<DocSummary>: s1.merge(s2.merge(s3))
    troca        \* Option: <<s1.merge(s2), s2.merge(s1)>>

VARIABLES
    \* ---- the run of the program (main.rs, utils.rs) ----
    pc,                  \* position of run()
    arq_cte_nfes,        \* lines of cte_nfes.txt, each the 44-digit tokens found in it
    arq_complementares,  \* lines of the complement file, each its 44-digit tokens
    cte_info,            \* manifest summaries returned by get_summaries
    nfe_info,            \* invoice summaries returned by get_summaries
    alteracoes,          \* alteracoes_realizadas
    saida                \* the records written to the output file

VARIABLES
    \* ---- Config::append on its own ----
    ap_field,    \* the destination field before the call
    ap_value,    \* the value to inject
    ap_label,    \* "CT-e" or "NF-e"
    ap_res,      \* Option: the field after the call
    \* ---- the enrichment of one row on its own ----
    en_row,      \* the row as deserialized
    en_info,     \* the Informacoes the functions read
    en_resumos,  \* the summaries of the counterpart documents
    en_iter,     \* iteration order of the related-key HashSet
    en_max_info, \* config.max_info of the call
    en_res       \* Option: [mudou, row] after the call

VARIABLES
    \* ---- Colunas::get_valor_do_item on its own ----
    vi_valor_item,  \* the text of the value column
    vi_res          \* Option: the Option<f64> returned

varsAgg == <<linhas, proxima, parciais, resultado, fase>>

varsMerge == <<s1, s2, s3, esq, dir, troca>>

varsRun == <<pc, arq_cte_nfes, arq_complementares, cte_info, nfe_info, alteracoes, saida>>

VARIABLES
    \* ---- Informacoes::ler_todas_as_nfes_deste_cte on its own ----
    ler_arquivo,    \* the file: whether it opens, and its lines
    ler_restantes,  \* the lines that par_bridge has not handed to a worker yet
    ler_parciais,   \* bag of the fold accumulators and reduced maps alive
    ler_res         \* Option: the SpedResult<KeyMap> returned

varsValor == <<vi_valor_item, vi_res>>

varsLer == <<ler_arquivo, ler_restantes, ler_parciais, ler_res>>

VARIABLES
    \* ---- Informacoes::expandir_cte_complementar, statement by statement ----
    ex_entrada,   \* self.cte_complementar as it was when the call began
    ex_mapa,      \* self.cte_complementar
    ex_adj,       \* adj
    ex_keys,      \* keys: Vec<Chave>
    ex_i,         \* position of `for node in keys`
    ex_visited,   \* visited
    ex_stack,     \* stack
    ex_group,     \* group
    ex_grupos,    \* the groups completed so far, in the order they were completed
    ex_marcas,    \* for each key, how often visited.insert(key) returned true
    ex_pc         \* "inicio" | "for" | "while" | "fim"

varsDfs == <<ex_entrada, ex_mapa, ex_adj, ex_keys, ex_i, ex_visited, ex_stack, ex_group,
             ex_grupos, ex_marcas, ex_pc>>

varsFun == <<ap_field, ap_value, ap_label, ap_res, en_row, en_info, en_resumos, en_iter,
             en_max_info, en_res, varsValor, varsLer, varsDfs>>

vars == <<varsChave, varsInfo, varsAgg, varsMerge, varsRun, varsFun>>

----------------------------------------------------------------------------
(* Bounds of the model *)

\* number of distinct digit patterns used to build input texts
NumBase == 2
\* input texts hold NUN_DIGITOS - MaxDelta .. NUN_DIGITOS + MaxDelta digits
MaxDelta == 1

----------------------------------------------------------------------------
(* Option<T> *)

None == [some |-> FALSE, val |-> <<>>]
Some(v) == [some |-> TRUE, val |-> v]

\* Result: Ok(v) and Err(e)
Ok(v) == [ok |-> TRUE, val |-> v, err |-> <<>>]
Err(e) == [ok |-> FALSE, val |-> <<>>, err |-> e]

----------------------------------------------------------------------------
(* chave.rs *)

NUN_DIGITOS == 44
\* b'0'
ByteZero == 48
\* b'\''
Aspa == 39

\* u8::wrapping_sub
WrappingSub(a, b) == (a - b) % 256

\* impl Default for Chave: Chave([0u8; NUN_DIGITOS])
ChaveDefault == [i \in 1..NUN_DIGITOS |-> 0]

\* The byte loop of Chave::new: arr and count after bytes 1..i-1 were read.
RECURSIVE ChaveNewLoop(_, _, _, _)
ChaveNewLoop(s, i, arr, count) ==
    IF i > Len(s)
    THEN IF count = NUN_DIGITOS THEN Some(arr) ELSE None
    ELSE IF WrappingSub(s[i], ByteZero) < 10
         THEN IF count < NUN_DIGITOS
              THEN ChaveNewLoop(s, i + 1, [arr EXCEPT ![count + 1] = s[i]], count + 1)
              ELSE None
         ELSE ChaveNewLoop(s, i + 1, arr, count)

\* A mutant of Chave::new: the 45th digit is dropped instead of rejecting the key.
ChaveNewTrunca(s) ==
    LET dig == SelectSeq(s, LAMBDA b : WrappingSub(b, ByteZero) < 10)
    IN  IF Len(dig) >= NUN_DIGITOS THEN Some(SubSeq(dig, 1, NUN_DIGITOS)) ELSE None

\* A mutant of Chave::new: any byte that is not a digit rejects the key.
ChaveNewEstrita(s) ==
    IF Len(s) = NUN_DIGITOS /\ \A i \in 1..Len(s) : WrappingSub(s[i], ByteZero) < 10
    THEN Some(s)
    ELSE None

\* Chave::new
ChaveNew(s) ==
    IF Len(s) < NUN_DIGITOS
    THEN None
    ELSE ChaveNewLoop(s, 1, [i \in 1..NUN_DIGITOS |-> 0], 0)

\* Chave::is_nfe: bytes 20..22 (0-based, end exclusive) are "55"
IsNfe(k) == k[21] = 53 /\ k[22] = 53

\* Chave::is_cte: bytes 20..22 are "57"
IsCte(k) == k[21] = 53 /\ k[22] = 55

\* Chave::as_str (and Display): the 44 bytes as text
AsStr(k) == k

\* impl Serialize for Chave: a 46-byte buffer, quote + 44 bytes + quote
Serialize(k) ==
    [i \in 1..(NUN_DIGITOS + 2) |->
        IF i = 1 \/ i = NUN_DIGITOS + 2 THEN Aspa ELSE k[i - 1]]

\* impl Deserialize for Chave: visit_str is Chave::new, None becoming an error
Deserialize(v) == ChaveNew(v)

----------------------------------------------------------------------------
(* Input texts of the key scenario *)

\* a run of n digits, the digit at each place depending on the place
DigitSeq(d, n) == [i \in 1..n |-> ByteZero + ((i + d) % 10)]

Digitos ==
    { DigitSeq(d, n) : d \in 1..NumBase,
                       n \in (NUN_DIGITOS - MaxDelta)..(NUN_DIGITOS + MaxDelta) }

\* noise: nothing, a quote, '/' and ':' (the bytes around '0'..'9'), a 2-byte UTF-8 char
Ruidos == { <<>>, <<Aspa>>, <<47, 58>>, <<195, 169>> }

Textos ==
    { pre \o SubSeq(dg, 1, p) \o mid \o SubSeq(dg, p + 1, Len(dg)) \o post :
        pre \in Ruidos, mid \in Ruidos, post \in Ruidos, p \in {0, 22}, dg \in Digitos }

\* the ASCII digits of a text, in order of appearance
DigitosDe(s) == SelectSeq(s, LAMBDA b : b \in 48..57)

----------------------------------------------------------------------------
(* Values of the variables a scenario does not use *)

EmptyMap == [k \in {} |-> {}]

IdleChave ==
    /\ texto = <<>>
    /\ chave = None
    /\ origem = "none"
    /\ copia = None
    /\ forma = "none"
    /\ ser = <<>>
    /\ volta = None
    /\ pcK = "idle"

IdleInfo ==
    /\ nfe_ctes = EmptyMap
    /\ cte_nfes = EmptyMap
    /\ cte_complementar = EmptyMap
    /\ numero_total_de_linhas = 0
    /\ antes = [nfe_ctes |-> EmptyMap, cte_nfes |-> EmptyMap, cte_complementar |-> EmptyMap]
    /\ pcI = "idle"

IdleAgg ==
    /\ linhas = <<>>
    /\ proxima = 0
    /\ parciais = EmptyBag
    /\ resultado = None
    /\ fase = "idle"

IdleMerge ==
    /\ s1 = None
    /\ s2 = None
    /\ s3 = None
    /\ esq = None
    /\ dir = None
    /\ troca = None

IdleValor ==
    /\ vi_valor_item = <<>>
    /\ vi_res = None

IdleLer ==
    /\ ler_arquivo = [aberto |-> FALSE, linhas |-> <<>>]
    /\ ler_restantes = {}
    /\ ler_parciais = EmptyBag
    /\ ler_res = None

IdleDfs ==
    /\ ex_entrada = EmptyMap
    /\ ex_mapa = EmptyMap
    /\ ex_adj = EmptyMap
    /\ ex_keys = <<>>
    /\ ex_i = 0
    /\ ex_visited = {}
    /\ ex_stack = <<>>
    /\ ex_group = <<>>
    /\ ex_grupos = <<>>
    /\ ex_marcas = EmptyMap
    /\ ex_pc = "idle"

IdleFun ==
    /\ IdleValor
    /\ IdleLer
    /\ IdleDfs
    /\ ap_field = <<>>
    /\ ap_value = <<>>
    /\ ap_label = <<>>
    /\ ap_res = None
    /\ en_row = None
    /\ en_info = None
    /\ en_resumos = [ctes |-> EmptyMap, nfes |-> EmptyMap]
    /\ en_iter = <<>>
    /\ en_max_info = 0
    /\ en_res = None

IdleRun ==
    /\ pc = "idle"
    /\ arq_cte_nfes = <<>>
    /\ arq_complementares = <<>>
    /\ cte_info = EmptyMap
    /\ nfe_info = EmptyMap
    /\ alteracoes = 0
    /\ saida = <<>>

----------------------------------------------------------------------------
(* The key scenario: obtain a key, produce its text, parse the text again *)

InitChave ==
    /\ texto \in Textos
    /\ chave = None
    /\ origem = "none"
    /\ copia = None
    /\ forma = "none"
    /\ ser = <<>>
    /\ volta = None
    /\ pcK = "input"
    /\ IdleInfo
    /\ IdleAgg
    /\ IdleMerge
    /\ IdleFun
    /\ IdleRun

ChaveNewAct ==
    /\ pcK = "input"
    /\ chave' = ChaveNew(texto)
    /\ origem' = "new"
    /\ pcK' = "made"
    /\ UNCHANGED <<texto, copia, forma, ser, volta>>

ChaveDefaultAct ==
    /\ pcK = "input"
    /\ chave' = Some(ChaveDefault)
    /\ origem' = "default"
    /\ pcK' = "made"
    /\ UNCHANGED <<texto, copia, forma, ser, volta>>

DeserializeAct ==
    /\ pcK = "input"
    /\ chave' = Deserialize(texto)
    /\ origem' = "deserialize"
    /\ pcK' = "made"
    /\ UNCHANGED <<texto, copia, forma, ser, volta>>

CopyAct ==
    /\ pcK = "made"
    /\ chave.some
    /\ copia = None
    /\ copia' = chave
    /\ UNCHANGED <<texto, chave, origem, forma, ser, volta, pcK>>

AsStrAct ==
    /\ pcK = "made"
    /\ chave.some
    /\ ser' = AsStr(chave.val)
    /\ forma' = "as_str"
    /\ pcK' = "text"
    /\ UNCHANGED <<texto, chave, origem, copia, volta>>

SerializeAct ==
    /\ pcK = "made"
    /\ chave.some
    /\ ser' = Serialize(chave.val)
    /\ forma' = "serialize"
    /\ pcK' = "text"
    /\ UNCHANGED <<texto, chave, origem, copia, volta>>

ReparseAct ==
    /\ pcK = "text"
    /\ volta' = IF forma = "as_str" THEN ChaveNew(ser) ELSE Deserialize(ser)
    /\ pcK' = "back"
    /\ UNCHANGED <<texto, chave, origem, copia, forma, ser>>

NextChave ==
    \/ ChaveNewAct /\ UNCHANGED <<varsInfo, varsAgg, varsMerge, varsRun, varsFun>>
    \/ ChaveDefaultAct /\ UNCHANGED <<varsInfo, varsAgg, varsMerge, varsRun, varsFun>>
    \/ DeserializeAct /\ UNCHANGED <<varsInfo, varsAgg, varsMerge, varsRun, varsFun>>
    \/ CopyAct /\ UNCHANGED <<varsInfo, varsAgg, varsMerge, varsRun, varsFun>>
    \/ AsStrAct /\ UNCHANGED <<varsInfo, varsAgg, varsMerge, varsRun, varsFun>>
    \/ SerializeAct /\ UNCHANGED <<varsInfo, varsAgg, varsMerge, varsRun, varsFun>>
    \/ ReparseAct /\ UNCHANGED <<varsInfo, varsAgg, varsMerge, varsRun, varsFun>>

SpecChave == InitChave /\ [][NextChave]_vars

----------------------------------------------------------------------------
(* Claims about the key *)

\* C8: Chave::new(text) succeeds if and only if text holds exactly 44 ASCII
\* digits, other characters being ignored, and the key then holds those digits
\* in their order of appearance; with fewer than 44 digits or with a 45th
\* digit anywhere it fails (no truncation).
C8_NewIffExactly44 ==
    (pcK # "input" /\ origem = "new") =>
        /\ chave.some <=> (Len(DigitosDe(texto)) = NUN_DIGITOS)
        /\ chave.some => chave.val = DigitosDe(texto)

\* C8 witness: a text with noise and exactly 44 digits was parsed into a key,
C8_Witness ==
    /\ pcK = "made" /\ origem = "new" /\ chave.some
    /\ Len(texto) > NUN_DIGITOS

\* C9: every Chave obtainable through the public interface (new, deserialize,
\* Default, copies) holds exactly 44 ASCII digit bytes.
C9_SempreDigitos ==
    \A o \in {chave, copia} :
        o.some => /\ Len(o.val) = NUN_DIGITOS
                  /\ \A i \in 1..Len(o.val) : o.val[i] \in 48..57

\* C10: for every key k built by Chave::new, parsing its text gives k back,
\* for the plain form (as_str) and for the single-quoted serialized form.
C10_RoundTrip ==
    (pcK = "back" /\ origem = "new") => volta = chave

\* C10 witness: a key built by Chave::new was serialized (quoted) and parsed back
C10_Witness ==
    /\ pcK = "back" /\ origem = "new" /\ forma = "serialize"
    /\ Len(ser) = NUN_DIGITOS + 2 /\ volta.some

----------------------------------------------------------------------------
(* informacoes.rs: the maps *)

\* a key as the doctests write it: 20 digits d, the model code "5t", 22 digits d
MkChave(d, t) ==
    [i \in 1..NUN_DIGITOS |->
        IF i = 21 THEN 53 ELSE IF i = 22 THEN ByteZero + t ELSE ByteZero + d]

\* the manifest (model 57) and invoice (model 55) keys of the scenarios
CteKeys == { MkChave(1, 7), MkChave(2, 7), MkChave(3, 7), MkChave(4, 7) }
NfeKeys == { MkChave(5, 5), MkChave(6, 5) }

\* HashMap::get(k), an absent key read as the empty set (entry(k).or_default())
Get(m, k) == IF k \in DOMAIN m THEN m[k] ELSE {}

\* the elements of set S in the order in which sequence `ordem` lists them:
\* one iteration order of a HashSet / HashMap
EmOrdem(S, ordem) == SelectSeq(ordem, LAMBDA k : k \in S)

\* expandir_cte_complementar, step 1: the symmetric adjacency map built while
\* the original map is drained
Simetrizar(m) ==
    LET nodes == {u \in DOMAIN m : m[u] # {}} \cup UNION {m[u] : u \in DOMAIN m}
    IN  [x \in nodes |-> Get(m, x) \cup {u \in DOMAIN m : x \in m[u]}]

\* expandir_cte_complementar, step 2: the `while let Some(current) = stack.pop()`
\* loop; gives the visited set and the group
RECURSIVE Dfs(_, _, _, _, _)
Dfs(adj, ordem, stack, visited, group) ==
    IF stack = <<>>
    THEN [visited |-> visited, group |-> group]
    ELSE LET current == stack[Len(stack)]
             rest == SubSeq(stack, 1, Len(stack) - 1)
         IN  IF current \notin visited
             THEN Dfs(adj, ordem,
                      IF current \in DOMAIN adj
                      THEN rest \o EmOrdem(adj[current], ordem)
                      ELSE rest,
                      visited \cup {current}, Append(group, current))
             ELSE Dfs(adj, ordem, rest, visited, group)

\* A mutant of step 3: the member itself is left in its own set.
CliqueComProprio(mapa, group) ==
    [k \in DOMAIN mapa \cup {group[i] : i \in 1..Len(group)} |->
        IF \E i \in 1..Len(group) : group[i] = k
        THEN {group[i] : i \in 1..Len(group)}
        ELSE mapa[k]]

\* A mutant of step 3: the first member of the group is removed from every
\* set, instead of the member that owns the set.
CliqueSemOPrimeiro(mapa, group) ==
    LET full_group_set == {group[i] : i \in 1..Len(group)}
    IN  [k \in DOMAIN mapa \cup full_group_set |->
            IF k \in full_group_set THEN full_group_set \ {group[1]} ELSE mapa[k]]

\* expandir_cte_complementar, step 3: every member of the group gets the
\* other members (groups of one are skipped by the caller)
Clique(mapa, group) ==
    LET full_group_set == {group[i] : i \in 1..Len(group)}
        comOutros == {member \in full_group_set : full_group_set \ {member} # {}}
    IN  [k \in DOMAIN mapa \cup comOutros |->
            IF k \in comOutros THEN full_group_set \ {k} ELSE mapa[k]]

\* expandir_cte_complementar: the `for node in keys` loop, from node keys[i]
RECURSIVE ExpandirLoop(_, _, _, _, _, _)
ExpandirLoop(adj, ordem, keys, i, visited, mapa) ==
    IF i > Len(keys)
    THEN mapa
    ELSE IF keys[i] \in visited
         THEN ExpandirLoop(adj, ordem, keys, i + 1, visited, mapa)
         ELSE LET r == Dfs(adj, ordem, <<keys[i]>>, visited, <<>>)
              IN  ExpandirLoop(adj, ordem, keys, i + 1, r.visited,
                               IF Len(r.group) > 1 THEN Clique(mapa, r.group) ELSE mapa)

\* the orders in which a HashSet or the keys of a HashMap can be iterated
Ordens(S) ==
    { o \in [1..Cardinality(S) -> S] : \A i, j \in DOMAIN o : i # j => o[i] # o[j] }

\* A mutant of the closure: the map is made symmetric and nothing else.
ExpandirSoSimetriza(m, ordem) == Simetrizar(m)

\* Informacoes::expandir_cte_complementar on map m, the hash containers being
\* iterated in the order `ordem`
ExpandirCteComplementar(m, ordem) ==
    LET adj == Simetrizar(m)
    IN  ExpandirLoop(adj, ordem, EmOrdem(DOMAIN adj, ordem), 1, {}, EmptyMap)

\* A mutant of the propagation: only manifests that already own invoices
\* receive the propagated ones (no entry is created).
PropagarSemCriar(nfes, compl) ==
    [t \in DOMAIN nfes |->
        nfes[t] \cup UNION {nfes[cte] : cte \in {c \in DOMAIN nfes \cap DOMAIN compl : t \in compl[c]}}]

\* Informacoes::propagar_nfes_para_cte_complementares: `updates` is filled from
\* the maps as they are before the call, then merged into cte_nfes
PropagarNfes(nfes, compl) ==
    LET fontes == DOMAIN nfes \cap DOMAIN compl
        alvos == UNION {compl[cte] : cte \in fontes}
        updates == [t \in alvos |->
                        UNION {nfes[cte] : cte \in {c \in fontes : t \in compl[c]}}]
    IN  [t \in DOMAIN nfes \cup alvos |-> Get(nfes, t) \cup Get(updates, t)]

\* A mutant of the inversion: the map is not cleared first.
GetNfeCtesSemClear(velho, nfes) ==
    LET alvo == DOMAIN velho \cup UNION {nfes[c] : c \in DOMAIN nfes}
    IN  [n \in alvo |-> Get(velho, n) \cup {c \in DOMAIN nfes : n \in nfes[c]}]

\* Informacoes::get_nfe_ctes: nfe_ctes (`velho`) is cleared and rebuilt
GetNfeCtes(velho, nfes) ==
    LET limpo == EmptyMap
        alvo == DOMAIN limpo \cup UNION {nfes[c] : c \in DOMAIN nfes}
    IN  [n \in alvo |-> Get(limpo, n) \cup {c \in DOMAIN nfes : n \in nfes[c]}]

----------------------------------------------------------------------------
(* The graph scenarios: a method of Informacoes called on any maps *)

\* most relations (complement edges plus manifest/invoice pairs) in the maps
MaxRel == 3

\* the subsets of S with at most k elements
RECURSIVE AteK(_, _)
AteK(S, k) ==
    IF k = 0 THEN {{}}
    ELSE LET menos == AteK(S, k - 1) IN menos \cup {E \cup {x} : E \in menos, x \in S}

\* the map holding the pairs of E: key u is present for <<u, v>> in E, and v is
\* in its set unless v is the empty sequence (a key present with an empty set)
MapaDe(E) ==
    [u \in {e[1] : e \in E} |-> {e[2] : e \in {x \in E : x[1] = u /\ x[2] # <<>>}}]

TodasOrdens ==
    { o \in [1..Cardinality(CteKeys) -> CteKeys] :
        \A i, j \in DOMAIN o : i # j => o[i] # o[j] }

Antes == [nfe_ctes |-> nfe_ctes, cte_nfes |-> cte_nfes, cte_complementar |-> cte_complementar]

\* the closure scenario: any complement map of at most MaxRel relations,
\* asymmetric, cyclic or self-referring, some keys present with an empty set
InitExpandir ==
    /\ cte_complementar \in {MapaDe(E) : E \in AteK(CteKeys \X (CteKeys \cup {<<>>}), MaxRel)}
    /\ cte_nfes = EmptyMap
    /\ nfe_ctes = EmptyMap
    /\ numero_total_de_linhas = 0
    /\ antes = Antes
    /\ pcI = "inicio"
    /\ IdleChave
    /\ IdleAgg
    /\ IdleMerge
    /\ IdleFun
    /\ IdleRun

\* info.expandir_cte_complementar(), a first and a second time
ExpandirAct ==
    /\ pcI \in {"inicio", "expandido"}
    /\ \E ordem \in TodasOrdens :
        cte_complementar' = ExpandirCteComplementar(cte_complementar, ordem)
    /\ antes' = Antes
    /\ pcI' = IF pcI = "inicio" THEN "expandido" ELSE "reexpandido"
    /\ UNCHANGED <<nfe_ctes, cte_nfes, numero_total_de_linhas>>

NextExpandir == ExpandirAct /\ UNCHANGED <<varsChave, varsAgg, varsMerge, varsRun, varsFun>>

SpecExpandir == InitExpandir /\ [][NextExpandir]_vars

\* the propagation and inversion scenario: any complement map and any
\* manifest -> invoice map of MaxRel relations together, nfe_ctes empty or stale
InitInfo ==
    /\ \E e \in 0..MaxRel :
        /\ cte_complementar \in {MapaDe(E) : E \in AteK(CteKeys \X CteKeys, e)}
        /\ cte_nfes \in {MapaDe(E) : E \in AteK(CteKeys \X (NfeKeys \cup {<<>>}), MaxRel - e)}
    /\ nfe_ctes \in {MapaDe(E) : E \in AteK({<<MkChave(6, 5), MkChave(1, 7)>>}, 1)}
    /\ numero_total_de_linhas = 0
    /\ antes = Antes
    /\ pcI = "inicio"
    /\ IdleChave
    /\ IdleAgg
    /\ IdleMerge
    /\ IdleFun
    /\ IdleRun

\* info.propagar_nfes_para_cte_complementares()
PropagarAct ==
    /\ pcI = "inicio"
    /\ cte_nfes' = PropagarNfes(cte_nfes, cte_complementar)
    /\ antes' = Antes
    /\ pcI' = "propagado"
    /\ UNCHANGED <<nfe_ctes, cte_complementar, numero_total_de_linhas>>

\* info.get_nfe_ctes(), a first and a second time
GetNfeCtesAct ==
    /\ pcI \in {"inicio", "invertido"}
    /\ nfe_ctes' = GetNfeCtes(nfe_ctes, cte_nfes)
    /\ antes' = Antes
    /\ pcI' = IF pcI = "inicio" THEN "invertido" ELSE "reinvertido"
    /\ UNCHANGED <<cte_nfes, cte_complementar, numero_total_de_linhas>>

NextInfo ==
    \/ PropagarAct /\ UNCHANGED <<varsChave, varsAgg, varsMerge, varsRun, varsFun>>
    \/ GetNfeCtesAct /\ UNCHANGED <<varsChave, varsAgg, varsMerge, varsRun, varsFun>>

SpecInfo == InitInfo /\ [][NextInfo]_vars

\* the manifests of the statement-level scenario
CteKeysDfs == { MkChave(1, 7), MkChave(2, 7), MkChave(3, 7) }

\* the statement-level scenario: any complement map of at most MaxRel
\* relations over three manifests, asymmetric, cyclic or self-referring,
\* some keys present with an empty set
InitDfs ==
    /\ ex_entrada \in {MapaDe(E) : E \in AteK(CteKeysDfs \X (CteKeysDfs \cup {<<>>}), MaxRel)}
    /\ ex_mapa = ex_entrada
    /\ ex_adj = EmptyMap
    /\ ex_keys = <<>>
    /\ ex_i = 0
    /\ ex_visited = {}
    /\ ex_stack = <<>>
    /\ ex_group = <<>>
    /\ ex_grupos = <<>>
    /\ ex_marcas = [k \in CteKeys |-> 0]
    /\ ex_pc = "inicio"
    /\ IdleValor
    /\ IdleLer
    /\ ap_field = <<>>
    /\ ap_value = <<>>
    /\ ap_label = <<>>
    /\ ap_res = None
    /\ en_row = None
    /\ en_info = None
    /\ en_resumos = [ctes |-> EmptyMap, nfes |-> EmptyMap]
    /\ en_iter = <<>>
    /\ en_max_info = 0
    /\ en_res = None
    /\ IdleChave
    /\ IdleInfo
    /\ IdleAgg
    /\ IdleMerge
    /\ IdleRun

\* step 1: the map is drained into adj; visited is empty; keys is collected
\* from adj in one of its iteration orders
DrenarAct ==
    /\ ex_pc = "inicio"
    /\ ex_adj' = Simetrizar(ex_mapa)
    /\ ex_mapa' = EmptyMap
    /\ ex_visited' = {}
    /\ ex_keys' \in Ordens(DOMAIN Simetrizar(ex_mapa))
    /\ ex_i' = 1
    /\ ex_pc' = "for"
    /\ UNCHANGED <<ex_entrada, ex_stack, ex_group, ex_grupos, ex_marcas>>

\* `for node in keys`: a visited node is passed over (continue); for another,
\* group is a new Vec and stack is vec![node]
ProximoNoAct ==
    /\ ex_pc = "for"
    /\ ex_i <= Len(ex_keys)
    /\ IF ex_keys[ex_i] \in ex_visited
       THEN /\ ex_i' = ex_i + 1
            /\ UNCHANGED <<ex_stack, ex_group, ex_pc>>
       ELSE /\ ex_group' = <<>>
            /\ ex_stack' = <<ex_keys[ex_i]>>
            /\ ex_pc' = "while"
            /\ UNCHANGED ex_i
    /\ UNCHANGED <<ex_entrada, ex_mapa, ex_adj, ex_keys, ex_visited, ex_grupos, ex_marcas>>

\* A mutant of the loop body: current is pushed to the group whether or not
\* visited.insert(current) is true.
PopSempreAgrupaAct ==
    /\ ex_pc = "while"
    /\ ex_stack # <<>>
    /\ LET current == ex_stack[Len(ex_stack)]
           rest == SubSeq(ex_stack, 1, Len(ex_stack) - 1)
       IN  /\ ex_group' = Append(ex_group, current)
           /\ IF current \notin ex_visited
              THEN /\ ex_visited' = ex_visited \cup {current}
                   /\ ex_marcas' = [ex_marcas EXCEPT ![current] = @ + 1]
                   /\ IF current \in DOMAIN ex_adj
                      THEN \E neighbors \in Ordens(ex_adj[current]) :
                               ex_stack' = rest \o neighbors
                      ELSE ex_stack' = rest
              ELSE /\ ex_stack' = rest
                   /\ UNCHANGED <<ex_visited, ex_marcas>>
    /\ UNCHANGED <<ex_entrada, ex_mapa, ex_adj, ex_keys, ex_i, ex_grupos, ex_pc>>

\* `while let Some(current) = stack.pop()`, one iteration: when
\* visited.insert(current) is true, current joins the group and its
\* neighbours are pushed in one of the iteration orders of their set
PopAct ==
    /\ ex_pc = "while"
    /\ ex_stack # <<>>
    /\ LET current == ex_stack[Len(ex_stack)]
           rest == SubSeq(ex_stack, 1, Len(ex_stack) - 1)
       IN  IF current \notin ex_visited
           THEN /\ ex_visited' = ex_visited \cup {current}
                /\ ex_marcas' = [ex_marcas EXCEPT ![current] = @ + 1]
                /\ ex_group' = Append(ex_group, current)
                /\ IF current \in DOMAIN ex_adj
                   THEN \E neighbors \in Ordens(ex_adj[current]) :
                            ex_stack' = rest \o neighbors
                   ELSE ex_stack' = rest
           ELSE /\ ex_stack' = rest
                /\ UNCHANGED <<ex_visited, ex_marcas, ex_group>>
    /\ UNCHANGED <<ex_entrada, ex_mapa, ex_adj, ex_keys, ex_i, ex_grupos, ex_pc>>

\* the stack is empty: step 3 writes the clique of a group of two or more,
\* and the for loop goes to its next node
FecharGrupoAct ==
    /\ ex_pc = "while"
    /\ ex_stack = <<>>
    /\ ex_mapa' = IF Len(ex_group) > 1 THEN Clique(ex_mapa, ex_group) ELSE ex_mapa
    /\ ex_grupos' = Append(ex_grupos, ex_group)
    /\ ex_i' = ex_i + 1
    /\ ex_pc' = "for"
    /\ UNCHANGED <<ex_entrada, ex_adj, ex_keys, ex_visited, ex_stack, ex_group, ex_marcas>>

\* keys is exhausted: the function returns
TerminarAct ==
    /\ ex_pc = "for"
    /\ ex_i > Len(ex_keys)
    /\ ex_pc' = "fim"
    /\ UNCHANGED <<ex_entrada, ex_mapa, ex_adj, ex_keys, ex_i, ex_visited, ex_stack, ex_group,
                   ex_grupos, ex_marcas>>

NextDfs ==
    \/ DrenarAct /\ UNCHANGED <<varsChave, varsInfo, varsAgg, varsMerge, varsRun,
                                      ap_field, ap_value, ap_label, ap_res, en_row, en_info,
                                      en_resumos, en_iter, en_max_info, en_res, varsValor,
                                      varsLer>>
    \/ ProximoNoAct /\ UNCHANGED <<varsChave, varsInfo, varsAgg, varsMerge, varsRun,
                                      ap_field, ap_value, ap_label, ap_res, en_row, en_info,
                                      en_resumos, en_iter, en_max_info, en_res, varsValor,
                                      varsLer>>
    \/ PopAct /\ UNCHANGED <<varsChave, varsInfo, varsAgg, varsMerge, varsRun,
                                      ap_field, ap_value, ap_label, ap_res, en_row, en_info,
                                      en_resumos, en_iter, en_max_info, en_res, varsValor,
                                      varsLer>>
    \/ FecharGrupoAct /\ UNCHANGED <<varsChave, varsInfo, varsAgg, varsMerge, varsRun,
                                      ap_field, ap_value, ap_label, ap_res, en_row, en_info,
                                      en_resumos, en_iter, en_max_info, en_res, varsValor,
                                      varsLer>>
    \/ TerminarAct /\ UNCHANGED <<varsChave, varsInfo, varsAgg, varsMerge, varsRun,
                                      ap_field, ap_value, ap_label, ap_res, en_row, en_info,
                                      en_resumos, en_iter, en_max_info, en_res, varsValor,
                                      varsLer>>

\* the function is sequential code: while a statement is left to execute,
\* one is executed
SpecDfs == InitDfs /\ [][NextDfs]_vars /\ WF_vars(NextDfs)

\* the map ler_chave_complementar_deste_cte builds from the pairs of E: each
\* key of a pair is inserted into the set of the other
MapaSimetrico(E) ==
    [k \in {e[1] : e \in E} \cup {e[2] : e \in E} |->
        {e[2] : e \in {x \in E : x[1] = k}} \cup {e[1] : e \in {x \in E : x[2] = k}}]

\* the construction scenario: the struct from_files builds from any two maps
\* the loaders can return, each of at most MaxRel relations: pairs of
\* different manifests, and manifests with one or more invoices
InitConstruir ==
    /\ cte_complementar \in
            {MapaSimetrico(E) : E \in AteK({e \in CteKeys \X CteKeys : e[1] # e[2]}, MaxRel)}
    /\ cte_nfes \in {MapaDe(E) : E \in AteK(CteKeys \X NfeKeys, MaxRel)}
    /\ nfe_ctes = EmptyMap
    /\ numero_total_de_linhas = 0
    /\ antes = Antes
    /\ pcI = "carregado"
    /\ IdleChave
    /\ IdleAgg
    /\ IdleMerge
    /\ IdleFun
    /\ IdleRun

\* from_files, step 2: info.expandir_cte_complementar()
ConstruirExpandirAct ==
    /\ pcI = "carregado"
    /\ \E ordem \in TodasOrdens :
        cte_complementar' = ExpandirCteComplementar(cte_complementar, ordem)
    /\ pcI' = "fechado"
    /\ UNCHANGED <<nfe_ctes, cte_nfes, numero_total_de_linhas, antes>>

\* from_files, step 3: info.propagar_nfes_para_cte_complementares()
ConstruirPropagarAct ==
    /\ pcI = "fechado"
    /\ cte_nfes' = PropagarNfes(cte_nfes, cte_complementar)
    /\ pcI' = "propagado"
    /\ UNCHANGED <<nfe_ctes, cte_complementar, numero_total_de_linhas, antes>>

\* from_files, step 4: info.get_nfe_ctes(), then Ok(info)
ConstruirInverterAct ==
    /\ pcI = "propagado"
    /\ nfe_ctes' = GetNfeCtes(nfe_ctes, cte_nfes)
    /\ pcI' = "construido"
    /\ UNCHANGED <<cte_nfes, cte_complementar, numero_total_de_linhas, antes>>

NextConstruir ==
    \/ ConstruirExpandirAct /\ UNCHANGED <<varsChave, varsAgg, varsMerge, varsRun, varsFun>>
    \/ ConstruirPropagarAct /\ UNCHANGED <<varsChave, varsAgg, varsMerge, varsRun, varsFun>>
    \/ ConstruirInverterAct /\ UNCHANGED <<varsChave, varsAgg, varsMerge, varsRun, varsFun>>

SpecConstruir == InitConstruir /\ [][NextConstruir]_vars

----------------------------------------------------------------------------
(* Claims about the graph methods *)

\* the keys one undirected complement edge away from a key of S, in map m
Vizinhos(m, S) ==
    S \cup UNION {Get(m, u) : u \in S} \cup {u \in DOMAIN m : m[u] \cap S # {}}

\* the connected component of k in map m, its edges read as undirected
RECURSIVE Alcance(_, _)
Alcance(m, S) == IF Vizinhos(m, S) = S THEN S ELSE Alcance(m, Vizinhos(m, S))
Componente(m, k) == Alcance(m, {k})

\* C27: after from_files has closed the complement map, propagated once and
\* inverted, every manifest of a complement component (the component of the
\* map as loaded) has the same invoice set, the union of the invoice sets
\* loaded for the members of the component, and every invoice of that set
\* lists every member of the component in nfe_ctes.
C27_ComponenteCompartilhaNfes ==
    (pcI = "construido") =>
        \A k \in CteKeys :
            LET comp == Componente(antes.cte_complementar, k)
                uniao == UNION {Get(antes.cte_nfes, c) : c \in comp}
            IN  /\ \A c \in comp : Get(cte_nfes, c) = uniao
                /\ \A n \in uniao : comp \subseteq Get(nfe_ctes, n)

\* C27 witness: a component of three or more manifests that is not a clique
\* as loaded, one member loaded with one invoice, another with the other and
\* a third with none, has been constructed
C27_Witness ==
    /\ pcI = "construido"
    /\ \E k \in CteKeys :
        LET comp == Componente(antes.cte_complementar, k)
        IN  /\ Cardinality(comp) >= 3
            /\ \E a, b, c \in comp :
                /\ b \notin Get(antes.cte_complementar, a)
                /\ Get(antes.cte_nfes, a) = {MkChave(5, 5)}
                /\ Get(antes.cte_nfes, b) = {MkChave(6, 5)}
                /\ c \notin DOMAIN antes.cte_nfes
                /\ cte_nfes[c] = NfeKeys

\* C30: expandir_cte_complementar returns for every complement map, also
\* one with cycles and self-references: the stack of every start key is
\* eventually empty, no key is marked visited more than once or placed in
\* more than one group or twice in a group, and at the return every key of
\* the adjacency map has been marked once and is in one group.
C30_Termina ==
    LET vezes(k) == Cardinality({p \in {<<g, j>> : g \in 1..Len(ex_grupos), j \in 1..MaxRel + 1} :
                                    /\ p[2] <= Len(ex_grupos[p[1]])
                                    /\ ex_grupos[p[1]][p[2]] = k})
    IN  /\ <>(ex_pc = "fim")
        /\ (ex_pc = "while") ~> (ex_pc = "while" /\ ex_stack = <<>>)
        /\ [](\A k \in CteKeys : ex_marcas[k] <= 1 /\ vezes(k) <= 1)
        /\ [](ex_pc = "fim" =>
                \A k \in DOMAIN ex_adj : ex_marcas[k] = 1 /\ vezes(k) = 1)

\* C30 witness: the call has returned for a map that is a cycle of three
\* manifests, with one group of the three
C30_Witness ==
    /\ ex_pc = "fim"
    /\ \E a, b, c \in CteKeys :
        /\ Cardinality({a, b, c}) = 3
        /\ b \in Get(ex_entrada, a)
        /\ c \in Get(ex_entrada, b)
        /\ a \in Get(ex_entrada, c)
    /\ Len(ex_grupos) = 1
    /\ Len(ex_grupos[1]) = 3

\* C1: after expandir_cte_complementar, every key whose connected component
\* (edges undirected) has at least two members maps to exactly that component
\* minus itself, and every other key is absent from the map; so the result is
\* symmetric, transitively closed and no key is in its own set.
C1_Componentes ==
    (pcI = "expandido") =>
        \A k \in CteKeys :
            LET comp == Componente(antes.cte_complementar, k)
            IN  IF Cardinality(comp) >= 2
                THEN k \in DOMAIN cte_complementar /\ cte_complementar[k] = comp \ {k}
                ELSE k \notin DOMAIN cte_complementar

\* C1 witness: an asymmetric chain (A -> B, B -> C, nothing back) was closed
\* into the clique of three
C1_Witness ==
    /\ pcI = "expandido"
    /\ \E a, b, c \in CteKeys :
        /\ Cardinality({a, b, c}) = 3
        /\ antes.cte_complementar = MapaDe({<<a, b>>, <<b, c>>})
        /\ cte_complementar[a] = {b, c}
        /\ cte_complementar[c] = {a, b}

\* C22: expandir_cte_complementar is idempotent: applied a second time, to
\* its own result, it leaves cte_complementar unchanged, whatever the order
\* in which the hash containers are iterated.
C22_Idempotente ==
    (pcI = "reexpandido") => cte_complementar = antes.cte_complementar

\* C22 witness: the second call ran on a result that holds a clique of three
C22_Witness ==
    /\ pcI = "reexpandido"
    /\ \E k \in DOMAIN antes.cte_complementar : Cardinality(antes.cte_complementar[k]) = 2
    /\ cte_complementar = antes.cte_complementar

\* C2: after propagar_nfes_para_cte_complementares, for every manifest A that
\* owned invoice X before the call and every manifest B in A's complement set,
\* B's invoice set contains X (an entry for B is created if it had none).
C2_Propagacao ==
    (pcI = "propagado") =>
        \A a \in DOMAIN antes.cte_nfes :
            \A x \in antes.cte_nfes[a] :
                \A b \in Get(cte_complementar, a) :
                    b \in DOMAIN cte_nfes /\ x \in cte_nfes[b]

\* C2 witness: B had no entry before the call and received X from A
C2_Witness ==
    /\ pcI = "propagado"
    /\ \E a, b \in CteKeys : \E x \in NfeKeys :
        /\ a # b
        /\ x \in Get(antes.cte_nfes, a)
        /\ b \in Get(cte_complementar, a)
        /\ b \notin DOMAIN antes.cte_nfes
        /\ b \in DOMAIN cte_nfes /\ x \in cte_nfes[b]

\* C3: after get_nfe_ctes, whatever nfe_ctes held before, nfe_ctes is exactly
\* the inverse of cte_nfes (M is in nfe_ctes[N] iff N is in cte_nfes[M], no
\* stale entry survives), and a second call leaves nfe_ctes unchanged.
C3_Inversa ==
    (pcI \in {"invertido", "reinvertido"}) =>
        /\ \A n \in DOMAIN nfe_ctes : nfe_ctes[n] # {}
        /\ \A n \in NfeKeys \cup CteKeys : \A m \in CteKeys \cup NfeKeys :
            (n \in DOMAIN nfe_ctes /\ m \in nfe_ctes[n])
                <=> (m \in DOMAIN cte_nfes /\ n \in cte_nfes[m])
        /\ DOMAIN nfe_ctes \subseteq NfeKeys \cup CteKeys
        /\ (pcI = "reinvertido" => nfe_ctes = antes.nfe_ctes)

\* C3 witness: a stale entry was there before the call and is gone after it
C3_Witness ==
    /\ pcI = "invertido"
    /\ \E n \in DOMAIN antes.nfe_ctes : \E m \in antes.nfe_ctes[n] :
        /\ ~(m \in DOMAIN cte_nfes /\ n \in cte_nfes[m])
        /\ nfe_ctes # EmptyMap
        /\ (n \notin DOMAIN nfe_ctes \/ m \notin nfe_ctes[n])

----------------------------------------------------------------------------
(* f64 values *)

\* An f64 is modelled as an integer count of half-DELTA units (0.000025), kept
\* to MantBits significant bits: every sum is rounded to nearest, ties to even,
\* as IEEE 754 does with its 53 bits.
MantBits == 3

RECURSIVE Pow2(_)
Pow2(n) == IF n = 0 THEN 1 ELSE 2 * Pow2(n - 1)

\* the spacing of the representable values around n >= 0
RECURSIVE Ulp(_, _)
Ulp(n, u) == IF n < Pow2(MantBits) * u THEN u ELSE Ulp(n, 2 * u)

\* n >= 0 rounded to the nearest representable value, ties to even
FRound(n) ==
    LET u == Ulp(n, 1)
        q == n \div u
        r == n % u
    IN  IF 2 * r < u THEN q * u
        ELSE IF 2 * r > u THEN (q + 1) * u
        ELSE IF q % 2 = 0 THEN q * u ELSE (q + 1) * u

\* f64 + f64 of non-negative values
FAdd(a, b) == FRound(a + b)

\* f64::abs
Abs(v) == IF v < 0 THEN 0 - v ELSE v

\* the smallest value at which adding DELTA is lost to rounding
Grande == Pow2(MantBits + 1)

\* const DELTA: f64 = 0.00005, in units
DELTA == 2

\* the largest magnitude carried is 2^ExpBits units: a parsed value beyond it
\* is kept at that magnitude
ExpBits == 20
FMax == Pow2(ExpBits)

\* decimal digits of a mantissa that the parse keeps
DigitosMant == 6

RECURSIVE Pow10(_)
Pow10(n) == IF n = 0 THEN 1 ELSE 10 * Pow10(n - 1)

\* an unsigned integer in decimal
RECURSIVE Decimal(_)
Decimal(n) == IF n < 10 THEN <<ByteZero + n>> ELSE Decimal(n \div 10) \o <<ByteZero + (n % 10)>>

EhDigito(b) == b \in 48..57

\* first position of a byte of B in s, Len(s) + 1 when there is none
Posicao(s, B) ==
    IF \E i \in 1..Len(s) : s[i] \in B
    THEN CHOOSE i \in 1..Len(s) : s[i] \in B /\ \A j \in 1..(i - 1) : s[j] \notin B
    ELSE Len(s) + 1

\* the number written by a few decimal digits
RECURSIVE ValorDigitos(_)
ValorDigitos(ds) ==
    IF ds = <<>> THEN 0
    ELSE ValorDigitos(SubSeq(ds, 1, Len(ds) - 1)) * 10 + (ds[Len(ds)] - ByteZero)

\* the digits of a mantissa, inteiros before the point and fracao after it,
\* as [m, e10] standing for m * 10^e10: the leading zeros and the first
\* DigitosMant + 1 digits after them are kept, a digit beyond them is
\* dropped (and counts a power of ten when it is before the point)
LerDigitos(inteiros, fracao) ==
    LET ds == inteiros \o fracao
        zeros == Posicao(ds, 49..57) - 1
        resto == Len(ds) - zeros
        k == IF resto < DigitosMant + 1 THEN resto ELSE DigitosMant + 1
        lidos == zeros + k
    IN  [m |-> ValorDigitos(SubSeq(ds, zeros + 1, lidos)),
         e10 |-> IF lidos <= Len(inteiros) THEN Len(inteiros) - lidos
                 ELSE 0 - (lidos - Len(inteiros))]

\* the digits of an exponent, kept at 1000 from four significant digits on
LerExpoente(ds) ==
    LET zeros == Posicao(ds, 49..57) - 1
    IN  IF Len(ds) - zeros > 3 THEN 1000 ELSE ValorDigitos(SubSeq(ds, zeros + 1, Len(ds)))

\* v * 10^k for k >= 0, kept at FMax
RECURSIVE Escalar(_, _)
Escalar(v, k) ==
    IF v = 0 THEN 0
    ELSE IF v >= FMax THEN FMax
    ELSE IF k = 0 THEN v
    ELSE Escalar(v * 10, k - 1)

\* v / 10^j for j > 0, rounded to the nearest unit, ties to even
Reduzir(v, j) ==
    IF j >= 10 THEN 0
    ELSE LET d == Pow10(j)
             q == v \div d
             r == v % d
         IN  IF 2 * r < d THEN q
             ELSE IF 2 * r > d THEN q + 1
             ELSE IF q % 2 = 0 THEN q ELSE q + 1

\* the decimal mantissa v scaled by 10^k: multiplied for k >= 0, divided and
\* rounded half-even for k < 0
Escalonar(v, k) == IF k >= 0 THEN Escalar(v, k) ELSE Reduzir(v, 0 - k)

\* a magnitude above the largest finite value of the model is that value
Saturar(v) == IF v > FMax THEN FMax ELSE v

\* <str as FromStr for f64>::from_str on text made of digits, signs, points
\* and e/E:  Sign? ( Digit+ | Digit+ '.' Digit* | Digit* '.' Digit+ ) Exp?
\* with Exp ::= ('e' | 'E') Sign? Digit+.  One whole is DELTA * 20000 units.
ParseF64(s) ==
    LET tem_sinal == Len(s) > 0 /\ s[1] \in {43, 45}
        corpo == IF tem_sinal THEN Tail(s) ELSE s
        pe == Posicao(corpo, {101, 69})
        mant == SubSeq(corpo, 1, pe - 1)
        tem_exp == pe <= Len(corpo)
        resto == SubSeq(corpo, pe + 1, Len(corpo))
        exp_sinal == Len(resto) > 0 /\ resto[1] \in {43, 45}
        exp_digitos == IF exp_sinal THEN Tail(resto) ELSE resto
        pp == Posicao(mant, {46})
        inteiros == SubSeq(mant, 1, pp - 1)
        fracao == SubSeq(mant, pp + 1, Len(mant))
        so_digitos(t) == \A i \in 1..Len(t) : EhDigito(t[i])
        valido == /\ so_digitos(inteiros)
                  /\ so_digitos(fracao)
                  /\ Len(inteiros) + Len(fracao) > 0
                  /\ tem_exp => (Len(exp_digitos) > 0 /\ so_digitos(exp_digitos))
        lido == LerDigitos(inteiros, fracao)
        e == LerExpoente(exp_digitos)
        k == 4 + lido.e10 + (IF exp_sinal /\ resto[1] = 45 THEN 0 - 1 ELSE 1) * e
        unidades == Escalonar(lido.m * DELTA * 2, k)
        magnitude == Saturar(FRound(unidades))
    IN  IF ~valido THEN None
        ELSE Some((IF tem_sinal /\ s[1] = 45 THEN 0 - 1 ELSE 1) * magnitude)

----------------------------------------------------------------------------
(* colunas.rs: the columns of a row the aggregation reads *)

\* RE_MULTISPACE's \s, its ASCII members
EhEspaco(b) == b \in {9, 10, 11, 12, 13, 32}

\* RE_MULTISPACE.replace_all(field, " "): every run of two or more whitespace
\* bytes becomes one space
RECURSIVE ReplaceMultispace(_, _, _)
ReplaceMultispace(f, i, out) ==
    IF i > Len(f) THEN out
    ELSE IF EhEspaco(f[i]) /\ i < Len(f) /\ EhEspaco(f[i + 1])
         THEN LET fim == CHOOSE j \in (i + 1)..Len(f) :
                            /\ \A x \in i..j : EhEspaco(f[x])
                            /\ (j = Len(f) \/ ~EhEspaco(f[j + 1]))
              IN  ReplaceMultispace(f, fim + 1, Append(out, 32))
         ELSE ReplaceMultispace(f, i + 1, Append(out, f[i]))

\* Colunas::sanitizar_campo
SanitizarCampo(field) ==
    IF \E i \in 1..(Len(field) - 1) : field[i] = 32 /\ field[i + 1] = 32
    THEN ReplaceMultispace(field, 1, <<>>)
    ELSE field

\* A mutant of chave_cancelada: only "Sim" cancels.
ChaveCanceladaSoSim(row) == row.cancelada = "Sim"

\* Colunas::chave_cancelada
ChaveCancelada(row) ==
    row.cancelada \in {"Sim", "SIM", "sim", "S", "s", "True", "true", "1"}

\* let mut buf = [0u8; 64]
TamanhoDoBuffer == 64

\* the match on one byte: whether it is copied to buf
Copiado(b, tem_virgula) ==
    IF b = 46 /\ tem_virgula THEN FALSE
    ELSE IF b = 44 THEN TRUE
    ELSE EhDigito(b) \/ b \in {45, 43, 46, 101, 69}

\* the loop of get_valor_do_item over the bytes of the column: pos at byte i
\* is the number of bytes copied before it; None when some byte is met with
\* pos >= 64, else Some(buf[..pos]), a comma copied as a point
LimparValor(bytes, tem_virgula) ==
    LET copiados(n) == SelectSeq(SubSeq(bytes, 1, n), LAMBDA b : Copiado(b, tem_virgula))
        buf == copiados(Len(bytes))
    IN  IF \E i \in 1..Len(bytes) : Len(copiados(i - 1)) >= TamanhoDoBuffer THEN None
        ELSE Some([i \in 1..Len(buf) |-> IF buf[i] = 44 THEN 46 ELSE buf[i]])

\* get_valor_do_item on the text of the column
ValorDoTexto(bytes) ==
    IF bytes = <<>> THEN None
    ELSE LET limpo == LimparValor(bytes, \E i \in 1..Len(bytes) : bytes[i] = 44)
         IN  IF ~limpo.some \/ limpo.val = <<>> THEN None ELSE ParseF64(limpo.val)

\* the text of the value column of a scenario row: "abc" for no value, else
\* the units in the format of Brazil with six decimals
TextoDoValor(valor) ==
    IF ~valor.some THEN <<97, 98, 99>>
    ELSE LET micros == Abs(valor.val) * 25
             fracao == micros % Pow10(6)
         IN  (IF valor.val < 0 THEN <<45>> ELSE <<>>)
                 \o Decimal(micros \div Pow10(6)) \o <<44>>
                 \o [i \in 1..6 |-> ByteZero + ((fracao \div Pow10(6 - i)) % 10)]

\* Colunas::get_valor_do_item
GetValorDoItem(row) == ValorDoTexto(row.valor_item)

----------------------------------------------------------------------------
(* Colunas::get_valor_do_item on its own *)

Repetir(n, b) == [i \in 1..n |-> b]

\* value texts around the length of the buffer: "R$ " or nothing, then 1, 2,
\* 63, 64 or 65 equal digits, then nothing, "%", ",5", "." or ".,"
TextosDeValor ==
    { prefixo \o Repetir(n, d) \o sufixo :
        prefixo \in {<<>>, <<82, 36, 32>>},
        n \in {1, 2, TamanhoDoBuffer - 1, TamanhoDoBuffer, TamanhoDoBuffer + 1},
        d \in {48, 49},
        sufixo \in {<<>>, <<37>>, <<44, 53>>, <<46>>, <<46, 44>>} }

InitValor ==
    /\ vi_valor_item \in TextosDeValor
    /\ vi_res = None
    /\ ap_field = <<>>
    /\ ap_value = <<>>
    /\ ap_label = <<>>
    /\ ap_res = None
    /\ en_row = None
    /\ en_info = None
    /\ en_resumos = [ctes |-> EmptyMap, nfes |-> EmptyMap]
    /\ en_iter = <<>>
    /\ en_max_info = 0
    /\ en_res = None
    /\ IdleLer
    /\ IdleDfs
    /\ IdleChave
    /\ IdleInfo
    /\ IdleAgg
    /\ IdleMerge
    /\ IdleRun

\* row.get_valor_do_item()
GetValorDoItemAct ==
    /\ ~vi_res.some
    /\ vi_res' = Some(ValorDoTexto(vi_valor_item))
    /\ UNCHANGED <<vi_valor_item, ap_field, ap_value, ap_label, ap_res, en_row, en_info,
                   en_resumos, en_iter, en_max_info, en_res, varsLer, varsDfs>>

NextValor ==
    \/ GetValorDoItemAct /\ UNCHANGED <<varsChave, varsInfo, varsAgg, varsMerge, varsRun>>

SpecValor == InitValor /\ [][NextValor]_vars

\* the characters of the text that the noise stripping retains: the points
\* are dropped when the text has a comma, a comma becomes a point
Retidos(bytes) ==
    LET tem_virgula == \E i \in 1..Len(bytes) : bytes[i] = 44
        fica(b) == (EhDigito(b) \/ b \in {44, 45, 43, 46, 101, 69}) /\ ~(b = 46 /\ tem_virgula)
        mantidos == SelectSeq(bytes, fica)
    IN  [i \in 1..Len(mantidos) |-> IF mantidos[i] = 44 THEN 46 ELSE mantidos[i]]

\* C21: get_valor_do_item rejects a value field for its length if and only if
\* the characters it retains number more than 64: with at most 64 retained
\* characters the result is the parse of the retained characters, with 65 or
\* more there is no value.
C21_RejeitaSoAcimaDe64 ==
    vi_res.some =>
        LET retidos == Retidos(vi_valor_item)
        IN  vi_res.val = IF Len(retidos) > TamanhoDoBuffer \/ retidos = <<>> THEN None
                         ELSE ParseF64(retidos)

\* Colunas::extrair_cte_metadata (the columns the model carries)
ExtrairCteMetadata(row) == [descricao_natureza |-> row.descricao_natureza]

\* Colunas::extrair_nfe_metadata (the columns the model carries)
ExtrairNfeMetadata(row) ==
    [descricao_mercadoria |-> row.descricao_mercadoria, ncm |-> row.ncm]

----------------------------------------------------------------------------
(* processor.rs: DocSummary, SummaryPair and the per-row accumulation *)

\* enum DocMetadata
MetaCte(c) == [tipo |-> "Cte", dados |-> c]
MetaNfe(n) == [tipo |-> "Nfe", dados |-> n]

\* DocSummary::default()
DocSummaryDefault ==
    [num_de_itens |-> 0, item_valor_total |-> 0, item_valor_maximo |-> 0, metadata |-> None]

\* SummaryPair::default()
SummaryPairDefault == [ctes |-> EmptyMap, nfes |-> EmptyMap]

\* HashMap::insert(k, v)
Put(m, k, v) == [x \in DOMAIN m \cup {k} |-> IF x = k THEN v ELSE m[x]]

\* A mutant of DocSummary::merge: the greater max is taken but the metadata
\* of the other side is not.
DocMergeSemMetadata(self, other) ==
    [num_de_itens |-> self.num_de_itens + other.num_de_itens,
     item_valor_total |-> FAdd(self.item_valor_total, other.item_valor_total),
     item_valor_maximo |-> IF other.item_valor_maximo > self.item_valor_maximo
                           THEN other.item_valor_maximo ELSE self.item_valor_maximo,
     metadata |-> self.metadata]

\* DocSummary::merge
DocMerge(self, other) ==
    LET somado == [self EXCEPT !.num_de_itens = @ + other.num_de_itens,
                               !.item_valor_total = FAdd(@, other.item_valor_total)]
    IN  IF other.item_valor_maximo > somado.item_valor_maximo
        THEN [somado EXCEPT !.item_valor_maximo = other.item_valor_maximo,
                            !.metadata = other.metadata]
        ELSE somado

\* SummaryPair::merge, one of its two maps: Occupied entries merge, Vacant
\* ones receive the other side's summary
MapMerge(self, other) ==
    [k \in DOMAIN self \cup DOMAIN other |->
        IF k \in DOMAIN self
        THEN IF k \in DOMAIN other THEN DocMerge(self[k], other[k]) ELSE self[k]
        ELSE other[k]]

\* SummaryPair::merge
PairMerge(self, other) ==
    [ctes |-> MapMerge(self.ctes, other.ctes), nfes |-> MapMerge(self.nfes, other.nfes)]

\* A mutant of the snapshot: the manifest variant is stored for every key.
SnapshotSempreCte(chave_, row) ==
    MetaCte(ExtrairCteMetadata([row EXCEPT !.descricao_natureza = SanitizarCampo(@)]))

\* the metadata stored for the row of the maximum: the retained field is
\* sanitised, then the snapshot is extracted
Snapshot(chave_, row) ==
    IF IsNfe(chave_)
    THEN MetaNfe(ExtrairNfeMetadata([row EXCEPT !.descricao_mercadoria = SanitizarCampo(@)]))
    ELSE MetaCte(ExtrairCteMetadata([row EXCEPT !.descricao_natureza = SanitizarCampo(@)]))

\* A mutant of the accumulation: a row equal to the current max replaces it.
AcumularUltimoDoMaximo(map, chave_, valor, row) ==
    LET doc == IF chave_ \in DOMAIN map THEN map[chave_] ELSE DocSummaryDefault
        contado == [doc EXCEPT !.item_valor_total = FAdd(@, valor),
                               !.num_de_itens = @ + 1]
        novo == IF ~contado.metadata.some \/ valor >= contado.item_valor_maximo
                THEN [contado EXCEPT !.item_valor_maximo = valor,
                                     !.metadata = Some(Snapshot(chave_, row))]
                ELSE contado
    IN  Put(map, chave_, novo)

\* the accumulation of one qualifying row into its key's summary:
\* map.entry(chave).or_default(), total, count, max and metadata
Acumular(map, chave_, valor, row) ==
    LET doc == IF chave_ \in DOMAIN map THEN map[chave_] ELSE DocSummaryDefault
        contado == [doc EXCEPT !.item_valor_total = FAdd(@, valor),
                               !.num_de_itens = @ + 1]
        novo == IF ~contado.metadata.some \/ valor > contado.item_valor_maximo
                THEN [contado EXCEPT !.item_valor_maximo = valor,
                                     !.metadata = Some(Snapshot(chave_, row))]
                ELSE contado
    IN  Put(map, chave_, novo)

\* the body of the row loop of get_summaries and of the try_fold closure of
\* get_summaries_parallel (the two are the same statements)
ProcessarLinha(acc, row) ==
    IF ChaveCancelada(row) THEN acc
    ELSE LET v == GetValorDoItem(row)
         IN  IF ~v.some \/ Abs(v.val) < DELTA THEN acc
             ELSE IF IsCte(row.chave)
                  THEN [acc EXCEPT !.ctes = Acumular(@, row.chave, Abs(v.val), row)]
                  ELSE IF IsNfe(row.chave)
                       THEN [acc EXCEPT !.nfes = Acumular(@, row.chave, Abs(v.val), row)]
                       ELSE acc

\* SpedError::Csv(csv::Error): the error of the reader, which knows the
\* position of the record and neither the path nor the text of the line
ErroCsv(linha) == [tipo |-> "Csv", linha_numero |-> linha]

\* SpedError::CsvDetailed { arquivo, linha_numero, conteudo, erro }
ErroCsvDetailed(linha, record) ==
    [tipo |-> "CsvDetailed", arquivo |-> "doc_path", linha_numero |-> linha,
     conteudo |-> record, erro |-> "Chave de acesso inválida"]

\* what the reader yields for a line of the dataset: a record of cells, or
\* (leitura "desigual") its error for a line whose number of cells is not
\* the header's; chave is the text of the key cell, the other cells are as
\* in the row
Registro(celula, row) ==
    [leitura |-> "ok", chave |-> celula, chave_de_acesso |-> row.chave_de_acesso,
     cancelada |-> row.cancelada, valor_item |-> row.valor_item,
     descricao_natureza |-> row.descricao_natureza,
     descricao_mercadoria |-> row.descricao_mercadoria, ncm |-> row.ncm]

----------------------------------------------------------------------------
(* The rows and records of the scenarios *)

Linha(k, cancelada_, valor, descricao, ncm_) ==
    [chave |-> k, chave_de_acesso |-> AsStr(k), cancelada |-> cancelada_,
     valor_item |-> TextoDoValor(valor), descricao_natureza |-> descricao,
     descricao_mercadoria |-> descricao, ncm |-> ncm_]

\* rows of one manifest with equal and with different values, an invoice row
\* with a negative value, and rows that are cancelled, below DELTA, unparsable
\* or of a key that is neither a manifest nor an invoice
LinhasPossiveis ==
    { Linha(MkChave(1, 7), "Não", Some(2), <<97>>, <<48, 48>>),
      Linha(MkChave(1, 7), "Não", Some(2), <<98>>, <<48, 48>>),
      Linha(MkChave(1, 7), "Não", Some(Grande), <<97, 32, 32, 98>>, <<>>),
      Linha(MkChave(5, 5), "Não", Some(0 - 4), <<98, 9, 32, 32, 99>>, <<56, 52>>),
      Linha(MkChave(1, 7), "Sim", Some(4), <<97>>, <<48, 48>>),
      Linha(MkChave(5, 5), "Não", Some(1), <<97>>, <<56, 52>>),
      Linha(MkChave(7, 9), "Não", None, <<97>>, <<>>) }

\* the records of those rows with the key cell quoted, a line with a cell
\* too many, and a line whose key cell has 43 digits
RegistrosPossiveis ==
    { Registro(Serialize(r.chave), r) : r \in LinhasPossiveis }
        \cup { [Registro(Serialize(MkChave(1, 7)), Linha(MkChave(1, 7), "Não", Some(4), <<97>>, <<>>))
                    EXCEPT !.leitura = "desigual"],
               Registro(Tail(MkChave(1, 7)), Linha(MkChave(1, 7), "Não", Some(4), <<97>>, <<>>)) }

\* a manifest row whose key cell is the 44 digits alone; an invoice row and
\* an invoice row of a value below DELTA whose key cell has the digits
\* between quotes
RegistrosDaExecucao ==
    { Registro(AsStr(MkChave(2, 7)), Linha(MkChave(2, 7), "Não", Some(2), <<97>>, <<48, 48>>)),
      Registro(Serialize(MkChave(5, 5)),
               Linha(MkChave(5, 5), "Não", Some(0 - 4), <<98, 32, 32, 99>>, <<56, 52>>)),
      Registro(Serialize(MkChave(5, 5)), Linha(MkChave(5, 5), "Não", Some(1), <<97>>, <<56, 52>>)) }

\* records of a manifest row under other texts of the cancellation column:
\* two of the list of chave_cancelada, and two that are not in the list
RegistrosDeCancelamento ==
    { Registro(Serialize(MkChave(1, 7)), Linha(MkChave(1, 7), flag, Some(4), <<97>>, <<>>)) :
        flag \in {"1", "true", "TRUE", "sIm"} }

----------------------------------------------------------------------------
(* processor.rs: the passes over the records *)

\* record.deserialize(None): the key cell goes through Deserialize for Chave,
\* the other columns are text and are taken as they are
DeserializarRegistro(record) ==
    LET k == ChaveNew(record.chave)
    IN  IF k.some
        THEN Ok([chave |-> k.val, chave_de_acesso |-> record.chave_de_acesso,
                 cancelada |-> record.cancelada, valor_item |-> record.valor_item,
                 descricao_natureza |-> record.descricao_natureza,
                 descricao_mercadoria |-> record.descricao_mercadoria, ncm |-> record.ncm])
        ELSE Err("Chave de acesso inválida")

\* the deserialization of the records of the scenarios, computed once
Deserializados ==
    [record \in RegistrosPossiveis \cup RegistrosDaExecucao \cup RegistrosDeCancelamento |->
        DeserializarRegistro(record)]

Deserializar(record) ==
    IF record \in DOMAIN Deserializados THEN Deserializados[record]
    ELSE DeserializarRegistro(record)

\* the line of the file of data row i: the header is line 1
LinhaNumero(i) == i + 1

\* one iteration of the loop over rdr.records(): the two `?` and the body
ProcessarRegistro(acc, result, i) ==
    IF result.leitura # "ok" THEN Err(ErroCsv(LinhaNumero(i)))
    ELSE LET row == Deserializar(result)
         IN  IF ~row.ok THEN Err(ErroCsvDetailed(LinhaNumero(i), result))
             ELSE Ok(ProcessarLinha(acc, row.val))

\* get_summaries: the records folded in file order, up to the first error
RECURSIVE GetSummariesLoop(_, _, _)
GetSummariesLoop(records, i, acc) ==
    IF i > Len(records) THEN Ok(acc)
    ELSE LET r == ProcessarRegistro(acc, records[i], i)
         IN  IF r.ok THEN GetSummariesLoop(records, i + 1, r.val) ELSE r

GetSummaries(records) == GetSummariesLoop(records, 1, SummaryPairDefault)

----------------------------------------------------------------------------
(* The sizes of the aggregation scenarios *)

\* number of data rows of the dataset
NumLinhas == 3
\* most fold accumulators (partial results) alive at once
MaxParciais == 2

----------------------------------------------------------------------------
(* The parallel aggregation: get_summaries_parallel *)

InitAgg ==
    /\ linhas \in [1..NumLinhas -> RegistrosPossiveis]
    /\ proxima = 1
    /\ parciais = EmptyBag
    /\ resultado = None
    /\ fase = "fold"
    /\ IdleChave
    /\ IdleInfo
    /\ IdleMerge
    /\ IdleFun
    /\ IdleRun

\* a partial result that is an error
Falhou(parciais_) == \E p \in BagToSet(parciais_) : ~p.ok

\* try_fold: a fold accumulator takes the next record of the shared iterator;
\* the accumulator is a new one (SummaryPair::default) or one that already
\* holds rows; an error ends that accumulator
FoldAct ==
    /\ fase = "fold"
    /\ proxima <= Len(linhas)
    /\ \/ /\ BagCardinality(parciais) < MaxParciais
          /\ parciais' = parciais
                (+) SetToBag({ProcessarRegistro(SummaryPairDefault, linhas[proxima], proxima)})
       \/ \E acc \in BagToSet(parciais) :
            /\ acc.ok
            /\ parciais' = (parciais (-) SetToBag({acc}))
                            (+) SetToBag({ProcessarRegistro(acc.val, linhas[proxima], proxima)})
    /\ proxima' = proxima + 1
    /\ UNCHANGED <<linhas, resultado, fase>>

\* a split of the iterator that received no row: its fold is the identity
FoldVazioAct ==
    /\ fase = "fold"
    /\ BagCardinality(parciais) < MaxParciais
    /\ ~BagIn(Ok(SummaryPairDefault), parciais)
    /\ parciais' = parciais (+) SetToBag({Ok(SummaryPairDefault)})
    /\ UNCHANGED <<linhas, proxima, resultado, fase>>

\* the closure of try_reduce on two partial results, Ok(a.merge(b)), which
\* an error on either side short-circuits
TryMerge(a, b) ==
    IF ~a.ok THEN a ELSE IF ~b.ok THEN b ELSE Ok(PairMerge(a.val, b.val))

\* try_reduce: two finished partial results are combined; the iterator is
\* exhausted, or an error has stopped the consumption of records
ReduceAct ==
    /\ fase = "fold"
    /\ proxima > Len(linhas) \/ Falhou(parciais)
    /\ \E a \in BagToSet(parciais) :
        \E b \in BagToSet(parciais (-) SetToBag({a})) :
            parciais' = ((parciais (-) SetToBag({a})) (-) SetToBag({b}))
                            (+) SetToBag({TryMerge(a, b)})
    /\ UNCHANGED <<linhas, proxima, resultado, fase>>

\* the reduction is complete: the error goes out through `?`, or
\* Ok((final_pair.ctes, final_pair.nfes))
RetornarAct ==
    /\ fase = "fold"
    /\ proxima > Len(linhas) \/ Falhou(parciais)
    /\ BagCardinality(parciais) <= 1
    /\ resultado' = IF parciais = EmptyBag
                    THEN Some(Ok(SummaryPairDefault))
                    ELSE Some(CHOOSE r \in BagToSet(parciais) : TRUE)
    /\ fase' = "done"
    /\ UNCHANGED <<linhas, proxima, parciais>>

NextAgg ==
    \/ FoldAct /\ UNCHANGED <<varsChave, varsInfo, varsMerge, varsRun, varsFun>>
    \/ FoldVazioAct /\ UNCHANGED <<varsChave, varsInfo, varsMerge, varsRun, varsFun>>
    \/ ReduceAct /\ UNCHANGED <<varsChave, varsInfo, varsMerge, varsRun, varsFun>>
    \/ RetornarAct /\ UNCHANGED <<varsChave, varsInfo, varsMerge, varsRun, varsFun>>

SpecAgg == InitAgg /\ [][NextAgg]_vars

\* C28: in every pair of maps an aggregation holds or returns (a fold
\* accumulator, a merged pair, the pair returned by get_summaries_parallel,
\* the pair get_summaries returns for the same rows) the manifest map has
\* only manifest keys with metadata of the manifest variant, the invoice map
\* only invoice keys with metadata of the invoice variant, no key is in both
\* maps, and every summary has num_de_itens >= 1 and
\* 0 < item_valor_maximo <= item_valor_total.
C28_ResumosBemFormados ==
    LET medidas(d) == /\ d.num_de_itens >= 1
                      /\ 0 < d.item_valor_maximo
                      /\ d.item_valor_maximo <= d.item_valor_total
        bem(par) == /\ \A k \in DOMAIN par.ctes :
                        /\ IsCte(k)
                        /\ par.ctes[k].metadata.some
                        /\ par.ctes[k].metadata.val.tipo = "Cte"
                        /\ medidas(par.ctes[k])
                    /\ \A k \in DOMAIN par.nfes :
                        /\ IsNfe(k)
                        /\ par.nfes[k].metadata.some
                        /\ par.nfes[k].metadata.val.tipo = "Nfe"
                        /\ medidas(par.nfes[k])
                    /\ DOMAIN par.ctes \cap DOMAIN par.nfes = {}
    IN  /\ \A p \in BagToSet(parciais) : p.ok => bem(p.val)
        /\ (resultado.some /\ resultado.val.ok) => bem(resultado.val.val)
        /\ (fase = "done") => LET seq == GetSummaries(linhas) IN seq.ok => bem(seq.val)

\* C28 witness: the pair returned has a manifest summary of two or more rows
\* whose total is above its max, and an invoice summary
C28_Witness ==
    /\ fase = "done"
    /\ resultado.val.ok
    /\ \E k \in DOMAIN resultado.val.val.ctes :
        /\ resultado.val.val.ctes[k].num_de_itens >= 2
        /\ resultado.val.val.ctes[k].item_valor_maximo < resultado.val.val.ctes[k].item_valor_total
    /\ DOMAIN resultado.val.val.nfes # {}

\* the summaries of every map of a SummaryPair, as <<key, summary>> pairs
Resumos(par) ==
    {<<k, par.ctes[k]>> : k \in DOMAIN par.ctes} \cup {<<k, par.nfes[k]>> : k \in DOMAIN par.nfes}

\* every summary alive: in a partial result or in the returned one
ResumosVivos ==
    UNION {Resumos(p.val) : p \in {q \in BagToSet(parciais) : q.ok}}
        \cup (IF resultado.some /\ resultado.val.ok THEN Resumos(resultado.val.val) ELSE {})

\* row i of the dataset is counted by the aggregation
Qualifica(row) ==
    /\ ~ChaveCancelada(row)
    /\ GetValorDoItem(row).some
    /\ Abs(GetValorDoItem(row).val) >= DELTA
    /\ (IsCte(row.chave) \/ IsNfe(row.chave))

\* C6: whatever the distribution of the rows among the fold accumulators and
\* the order of the reductions, get_summaries_parallel returns what the
\* sequential get_summaries returns: the same keys and, for each key, the same
\* count, total, max and metadata (on a dataset that the sequential pass
\* reads to the end).
C6_ParaleloIgualSequencial ==
    (fase = "done" /\ GetSummaries(linhas).ok) => resultado = Some(GetSummaries(linhas))

\* C7: in every summary built by accumulating rows and merging partial
\* results, the metadata is present exactly when the count is positive, and
\* it is the snapshot of a counted row of the summary's key whose absolute
\* value is the summary's maximum.
C7_MetadataDoMaximo ==
    LET rows == [i \in 1..Len(linhas) |-> Deserializar(linhas[i])]
    IN  \A kd \in ResumosVivos :
            LET k == kd[1]
                d == kd[2]
            IN  /\ d.metadata.some <=> d.num_de_itens > 0
                /\ d.metadata.some =>
                    \E i \in 1..Len(linhas) :
                        /\ linhas[i].leitura = "ok"
                        /\ rows[i].ok
                        /\ rows[i].val.chave = k
                        /\ Qualifica(rows[i].val)
                        /\ Abs(GetValorDoItem(rows[i].val).val) = d.item_valor_maximo
                        /\ d.metadata.val = Snapshot(k, rows[i].val)

\* a returned summary of several rows whose metadata is not the one the
\* sequential pass keeps: partial results were merged, and the metadata came
\* from the merge
C7_Witness ==
    /\ fase = "done"
    /\ resultado.val.ok
    /\ \E k \in DOMAIN resultado.val.val.ctes :
        /\ resultado.val.val.ctes[k].num_de_itens >= 2
        /\ resultado.val.val.ctes[k].metadata.some
        /\ resultado.val.val.ctes[k].metadata # GetSummaries(linhas).val.ctes[k].metadata
    /\ resultado.val.val.nfes # EmptyMap

----------------------------------------------------------------------------
(* The sequential aggregation: get_summaries *)

InitGetSummaries ==
    /\ linhas \in [1..NumLinhas -> RegistrosPossiveis \cup RegistrosDeCancelamento]
    /\ proxima = 1
    /\ parciais = EmptyBag
    /\ resultado = None
    /\ fase = "seq"
    /\ IdleChave
    /\ IdleInfo
    /\ IdleMerge
    /\ IdleFun
    /\ IdleRun

\* get_summaries(path, config): the loop over the records and the return
GetSummariesSeqAct ==
    /\ fase = "seq"
    /\ resultado' = Some(GetSummaries(linhas))
    /\ fase' = "done"
    /\ UNCHANGED <<linhas, proxima, parciais>>

NextGetSummaries ==
    \/ GetSummariesSeqAct /\ UNCHANGED <<varsChave, varsInfo, varsMerge, varsRun, varsFun>>

SpecGetSummaries == InitGetSummaries /\ [][NextGetSummaries]_vars

\* record i has a structural error: its number of cells is wrong, or its
\* key cell cannot be deserialized
ErroEstrutural(i) == linhas[i].leitura # "ok" \/ ~Deserializar(linhas[i]).ok

\* the records whose key cell does not hold exactly 44 digits left out
SemChavesInvalidas == SelectSeq(linhas, LAMBDA r : r.leitura # "ok" \/ Deserializar(r).ok)

\* C18: when some record has a structural error, the pass returns no
\* summaries but an error that carries the file, the line number and the raw
\* content of the first such record, whatever records came before it
C18_ErroComArquivoLinhaConteudo ==
    (fase = "done" /\ \E i \in 1..Len(linhas) : ErroEstrutural(i)) =>
        LET i == CHOOSE j \in 1..Len(linhas) :
                    ErroEstrutural(j) /\ \A h \in 1..(j - 1) : ~ErroEstrutural(h)
        IN  /\ ~resultado.val.ok
            /\ resultado.val.err.tipo = "CsvDetailed"
            /\ resultado.val.err.arquivo = "doc_path"
            /\ resultado.val.err.linha_numero = LinhaNumero(i)
            /\ resultado.val.err.conteudo = linhas[i]

\* C19: when the only faulty records are records whose key cell does not
\* hold exactly 44 digits, the pass skips them and returns the summaries of
\* the other records
C19_ChaveInvalidaIgnorada ==
    (fase = "done" /\ \A i \in 1..Len(linhas) : linhas[i].leitura = "ok") =>
        /\ resultado.val.ok
        /\ resultado.val = GetSummaries(SemChavesInvalidas)

\* the records of the dataset as deserialized
Linhas == [i \in 1..Len(linhas) |-> Deserializar(linhas[i])]

\* the value the pass adds for row i
ValorDaLinha(rows, i) == Abs(GetValorDoItem(rows[i].val).val)

\* the rows of key k that the pass counts
Contadas(rows, k) ==
    {i \in 1..Len(rows) : rows[i].ok /\ rows[i].val.chave = k /\ Qualifica(rows[i].val)}

\* the summary of key k in a pair of mappings, None when it has none
ResumoDe(par, k) ==
    IF k \in DOMAIN par.ctes THEN Some(par.ctes[k])
    ELSE IF k \in DOMAIN par.nfes THEN Some(par.nfes[k])
    ELSE None

\* C23: in a sequential pass, a row replaces the max value and the metadata
\* of its key only when it is counted and is the first counted row of the key
\* or its absolute value is strictly greater than the max so far; so the
\* stored max is the greatest value of the key's counted rows and the stored
\* metadata is the snapshot of the first row, in file order, that has it.
C23_PrimeiroDoMaximo ==
    (fase = "done" /\ parciais = EmptyBag /\ resultado.val.ok) =>
        LET rows == Linhas
        IN  /\ \A n \in 1..Len(linhas) :
                    LET a == GetSummaries(SubSeq(linhas, 1, n - 1)).val
                        b == GetSummaries(SubSeq(linhas, 1, n)).val
                        k == rows[n].val.chave
                    IN  /\ \A x \in DOMAIN a.ctes \cup DOMAIN a.nfes :
                                x # k => ResumoDe(b, x) = ResumoDe(a, x)
                        /\ ResumoDe(a, k).some =>
                            \/ /\ ResumoDe(b, k).val.item_valor_maximo
                                      = ResumoDe(a, k).val.item_valor_maximo
                               /\ ResumoDe(b, k).val.metadata = ResumoDe(a, k).val.metadata
                            \/ /\ Qualifica(rows[n].val)
                               /\ ValorDaLinha(rows, n) > ResumoDe(a, k).val.item_valor_maximo
            /\ \A kd \in Resumos(resultado.val.val) :
                    LET k == kd[1]
                        d == kd[2]
                        Q == Contadas(rows, k)
                        M == CHOOSE v \in {ValorDaLinha(rows, i) : i \in Q} :
                                \A j \in Q : ValorDaLinha(rows, j) <= v
                        primeira == CHOOSE i \in Q :
                                        /\ ValorDaLinha(rows, i) = M
                                        /\ \A j \in Q : ValorDaLinha(rows, j) = M => i <= j
                    IN  /\ d.item_valor_maximo = M
                        /\ d.metadata = Some(Snapshot(k, rows[primeira].val))

C23_Witness ==
    /\ fase = "done"
    /\ parciais = EmptyBag
    /\ resultado.val.ok
    /\ LET rows == Linhas
       IN  \E i, j \in 1..Len(linhas) :
            /\ i < j
            /\ rows[i].val.chave = rows[j].val.chave
            /\ Qualifica(rows[i].val) /\ Qualifica(rows[j].val)
            /\ ValorDaLinha(rows, i) = ValorDaLinha(rows, j)
            /\ Snapshot(rows[i].val.chave, rows[i].val) # Snapshot(rows[j].val.chave, rows[j].val)
            /\ ResumoDe(resultado.val.val, rows[i].val.chave).val.item_valor_maximo
                    = ValorDaLinha(rows, i)
            /\ ResumoDe(resultado.val.val, rows[i].val.chave).val.metadata
                    = Some(Snapshot(rows[i].val.chave, rows[i].val))

----------------------------------------------------------------------------
(* DocSummary::merge on its own: groupings and orders of three summaries *)

\* most rows accumulated into one operand of a merge
MaxItens == 2

\* the qualifying rows of one manifest
LinhasDoCte == {r \in LinhasPossiveis : Qualifica(r) /\ r.chave = MkChave(1, 7)}

\* the summaries of the manifest after n rows
RECURSIVE ResumosDe(_)
ResumosDe(n) ==
    IF n = 0 THEN {DocSummaryDefault}
    ELSE ResumosDe(n - 1) \cup
         {Acumular(Put(EmptyMap, MkChave(1, 7), d), MkChave(1, 7),
                   Abs(GetValorDoItem(r).val), r)[MkChave(1, 7)] :
             d \in ResumosDe(n - 1), r \in LinhasDoCte}

InitMerge ==
    /\ s1 \in {Some(d) : d \in ResumosDe(MaxItens)}
    /\ s2 \in {Some(d) : d \in ResumosDe(MaxItens)}
    /\ s3 \in {Some(d) : d \in ResumosDe(MaxItens)}
    /\ esq = None
    /\ dir = None
    /\ troca = None
    /\ IdleChave
    /\ IdleInfo
    /\ IdleAgg
    /\ IdleRun
    /\ IdleFun

\* (s1.merge(s2)).merge(s3)
AgruparEsquerdaAct ==
    /\ ~esq.some
    /\ esq' = Some(DocMerge(DocMerge(s1.val, s2.val), s3.val))
    /\ UNCHANGED <<s1, s2, s3, dir, troca>>

\* s1.merge(s2.merge(s3))
AgruparDireitaAct ==
    /\ ~dir.some
    /\ dir' = Some(DocMerge(s1.val, DocMerge(s2.val, s3.val)))
    /\ UNCHANGED <<s1, s2, s3, esq, troca>>

\* s1.merge(s2) and s2.merge(s1)
TrocarAct ==
    /\ ~troca.some
    /\ troca' = Some(<<DocMerge(s1.val, s2.val), DocMerge(s2.val, s1.val)>>)
    /\ UNCHANGED <<s1, s2, s3, esq, dir>>

NextMerge ==
    \/ AgruparEsquerdaAct /\ UNCHANGED <<varsChave, varsInfo, varsAgg, varsRun, varsFun>>
    \/ AgruparDireitaAct /\ UNCHANGED <<varsChave, varsInfo, varsAgg, varsRun, varsFun>>
    \/ TrocarAct /\ UNCHANGED <<varsChave, varsInfo, varsAgg, varsRun, varsFun>>

SpecMerge == InitMerge /\ [][NextMerge]_vars

\* count, total and max of a summary
Valores(d) == <<d.num_de_itens, d.item_valor_total, d.item_valor_maximo>>

\* C5: DocSummary::merge is commutative and associative on count, total and
\* max (every grouping and order of the same summaries gives the same three
\* values), and the merged metadata is that of the operand with the strictly
\* greater max, the left operand's on a tie.
C5_MergeComutativoAssociativo ==
    /\ (esq.some /\ dir.some) => Valores(esq.val) = Valores(dir.val)
    /\ troca.some =>
        /\ Valores(troca.val[1]) = Valores(troca.val[2])
        /\ troca.val[1].metadata =
            IF s2.val.item_valor_maximo > s1.val.item_valor_maximo
            THEN s2.val.metadata ELSE s1.val.metadata

----------------------------------------------------------------------------
(* informacoes.rs: the two loaders *)

\* a relationship file: whether File::open succeeds, and what lines() yields
\* for each line, the tokens of 44 digits of the line or (lida FALSE) an
\* error of the read
Arquivo(linhas_) ==
    [aberto |-> TRUE,
     linhas |-> [i \in 1..Len(linhas_) |-> [lida |-> TRUE, tokens |-> linhas_[i]]]]
ArquivoAusente == [aberto |-> FALSE, linhas |-> <<>>]
LinhaIlegivel == [lida |-> FALSE, tokens |-> <<>>]

\* the tokens of the lines that were read, in file order
LinhasLidas(path) ==
    LET lidas == SelectSeq(path.linhas, LAMBDA l : l.lida)
    IN  [i \in 1..Len(lidas) |-> lidas[i].tokens]

\* SpedError::IoReader { source, arquivo } and SpedError::Io(io::Error)
ErroIoReader(arquivo_) == [tipo |-> "IoReader", arquivo |-> arquivo_]
ErroIo == [tipo |-> "Io"]

\* the filter_map, fold and reduce of ler_todas_as_nfes_deste_cte on the
\* lines it keeps: a line counts when its first token is a manifest key and
\* some later token is an invoice key; the lines of one manifest are united
CteNfesDasLinhas(arq) ==
    LET nfesDe(l) == {l[i] : i \in {j \in 2..Len(l) : IsNfe(l[j])}}
        validas == {i \in 1..Len(arq) :
                        /\ Len(arq[i]) >= 1
                        /\ IsCte(arq[i][1])
                        /\ nfesDe(arq[i]) # {}}
    IN  [cte \in {arq[i][1] : i \in validas} |->
            UNION {nfesDe(arq[i]) : i \in {j \in validas : arq[j][1] = cte}}]

\* the try_fold and try_reduce of ler_chave_complementar_deste_cte on lines
\* that were read: a line counts when its first two tokens are two different
\* manifest keys; each is inserted into the other's set
ComplementaresDasLinhas(arq) ==
    LET validas == {i \in 1..Len(arq) :
                        /\ Len(arq[i]) >= 2
                        /\ IsCte(arq[i][1])
                        /\ IsCte(arq[i][2])
                        /\ arq[i][1] # arq[i][2]}
        pares == {<<arq[i][1], arq[i][2]>> : i \in validas}
                    \cup {<<arq[i][2], arq[i][1]>> : i \in validas}
    IN  [k \in {e[1] : e \in pares} |-> {e[2] : e \in {x \in pares : x[1] = k}}]

\* ler_todas_as_nfes_deste_cte: the open error is returned; a line whose
\* read failed is left out by line_result.ok()? and the map is built from
\* the others
LerTodasAsNfesDesteCte(path) ==
    IF ~path.aberto THEN Err(ErroIoReader("cte_nfes.txt"))
    ELSE Ok(CteNfesDasLinhas(LinhasLidas(path)))

\* ler_chave_complementar_deste_cte: the open error is returned, and so is
\* the error of a line whose read failed (line_result?)
LerChaveComplementarDesteCte(path) ==
    IF ~path.aberto THEN Err(ErroIoReader("complementares.txt"))
    ELSE IF \E i \in 1..Len(path.linhas) : ~path.linhas[i].lida THEN Err(ErroIo)
    ELSE Ok(ComplementaresDasLinhas(LinhasLidas(path)))

----------------------------------------------------------------------------
(* Informacoes::ler_todas_as_nfes_deste_cte, line by line *)

\* the filter_map closure on one line of lines(): None, or the manifest the
\* line starts with and the invoices that follow it
FiltrarLinha(line_result) ==
    IF ~line_result.lida THEN None
    ELSE LET chaves == line_result.tokens
         IN  IF chaves = <<>> THEN None
             ELSE IF ~IsCte(chaves[1]) THEN None
             ELSE LET nfes == {chaves[i] : i \in {j \in 2..Len(chaves) : IsNfe(chaves[j])}}
                  IN  IF nfes = {} THEN None ELSE Some([cte |-> chaves[1], nfes |-> nfes])

\* A mutant of the fold closure: the set of the line replaces the entry.
FoldLinhaSubstitui(acc, item) == Put(acc, item.cte, item.nfes)

\* the fold closure: acc.entry(cte).or_default().extend(nfes)
FoldLinha(acc, item) == Put(acc, item.cte, Get(acc, item.cte) \cup item.nfes)

\* the reduce closure: every entry of map2 is extended into map1
UnirMapas(map1, map2) ==
    [k \in DOMAIN map1 \cup DOMAIN map2 |-> Get(map1, k) \cup Get(map2, k)]

\* lines of cte_nfes.txt: one manifest with one invoice and with another, a
\* manifest followed by a manifest and an invoice, a manifest alone, a line
\* that starts with an invoice, another manifest with two invoices, and a
\* line whose read fails
LinhasDoLeitor ==
    { [lida |-> TRUE, tokens |-> t] :
        t \in { <<MkChave(1, 7), MkChave(5, 5)>>,
                <<MkChave(1, 7), MkChave(6, 5)>>,
                <<MkChave(1, 7), MkChave(2, 7), MkChave(5, 5)>>,
                <<MkChave(1, 7)>>,
                <<MkChave(5, 5), MkChave(1, 7)>>,
                <<MkChave(2, 7), MkChave(5, 5), MkChave(6, 5)>> } }
        \cup {LinhaIlegivel}

InitLer ==
    /\ ler_arquivo \in { [aberto |-> TRUE, linhas |-> l] :
                            l \in [1..NumLinhas -> LinhasDoLeitor] }
    /\ ler_restantes = 1..NumLinhas
    /\ ler_parciais = EmptyBag
    /\ ler_res = None
    /\ IdleValor
    /\ IdleDfs
    /\ ap_field = <<>>
    /\ ap_value = <<>>
    /\ ap_label = <<>>
    /\ ap_res = None
    /\ en_row = None
    /\ en_info = None
    /\ en_resumos = [ctes |-> EmptyMap, nfes |-> EmptyMap]
    /\ en_iter = <<>>
    /\ en_max_info = 0
    /\ en_res = None
    /\ IdleChave
    /\ IdleInfo
    /\ IdleAgg
    /\ IdleMerge
    /\ IdleRun

\* a worker takes any line not yet taken: a line that filter_map drops
\* changes no accumulator; another is folded into a new accumulator
\* (HashMap::new) or into one that is alive
LerLinhaAct ==
    /\ ~ler_res.some
    /\ \E i \in ler_restantes :
        LET item == FiltrarLinha(ler_arquivo.linhas[i])
        IN  /\ ler_restantes' = ler_restantes \ {i}
            /\ IF ~item.some THEN ler_parciais' = ler_parciais
               ELSE \/ /\ BagCardinality(ler_parciais) < MaxParciais
                       /\ ler_parciais' = ler_parciais
                                            (+) SetToBag({FoldLinha(EmptyMap, item.val)})
                    \/ \E acc \in BagToSet(ler_parciais) :
                        ler_parciais' = (ler_parciais (-) SetToBag({acc}))
                                            (+) SetToBag({FoldLinha(acc, item.val)})
    /\ UNCHANGED <<ler_arquivo, ler_res>>

\* reduce: two of the maps alive are united
ReduzirLerAct ==
    /\ ~ler_res.some
    /\ ler_restantes = {}
    /\ \E a \in BagToSet(ler_parciais) :
        \E b \in BagToSet(ler_parciais (-) SetToBag({a})) :
            ler_parciais' = ((ler_parciais (-) SetToBag({a})) (-) SetToBag({b}))
                                (+) SetToBag({UnirMapas(a, b)})
    /\ UNCHANGED <<ler_arquivo, ler_restantes, ler_res>>

\* Ok(hash): the one map left, or the identity HashMap::new
RetornarLerAct ==
    /\ ~ler_res.some
    /\ ler_restantes = {}
    /\ BagCardinality(ler_parciais) <= 1
    /\ ler_res' = IF ler_parciais = EmptyBag THEN Some(Ok(EmptyMap))
                  ELSE Some(Ok(CHOOSE m \in BagToSet(ler_parciais) : TRUE))
    /\ UNCHANGED <<ler_arquivo, ler_restantes, ler_parciais>>

NextLer ==
    \/ LerLinhaAct /\ UNCHANGED <<varsChave, varsInfo, varsAgg, varsMerge, varsRun,
                                   ap_field, ap_value, ap_label, ap_res, en_row, en_info,
                                   en_resumos, en_iter, en_max_info, en_res, varsValor, varsDfs>>
    \/ ReduzirLerAct /\ UNCHANGED <<varsChave, varsInfo, varsAgg, varsMerge, varsRun,
                                     ap_field, ap_value, ap_label, ap_res, en_row, en_info,
                                     en_resumos, en_iter, en_max_info, en_res, varsValor, varsDfs>>
    \/ RetornarLerAct /\ UNCHANGED <<varsChave, varsInfo, varsAgg, varsMerge, varsRun,
                                      ap_field, ap_value, ap_label, ap_res, en_row, en_info,
                                      en_resumos, en_iter, en_max_info, en_res, varsValor, varsDfs>>

SpecLer == InitLer /\ [][NextLer]_vars

\* C26: whatever the order in which the lines are taken and their
\* distribution among the accumulators, the map returned by
\* ler_todas_as_nfes_deste_cte maps a manifest key to the union, over the
\* lines whose first token is that manifest key, of the invoice tokens that
\* follow it; a line whose first token is not a manifest key, or with no
\* invoice token after it, contributes nothing.
C26_MapaIndependenteDaOrdem ==
    ler_res.some =>
        LET lidas == LinhasLidas(ler_arquivo)
            nfesDe(l) == {l[i] : i \in {j \in 2..Len(l) : IsNfe(l[j])}}
            contam == {i \in 1..Len(lidas) :
                        Len(lidas[i]) >= 1 /\ IsCte(lidas[i][1]) /\ nfesDe(lidas[i]) # {}}
        IN  /\ ler_res.val.ok
            /\ DOMAIN ler_res.val.val = {lidas[i][1] : i \in contam}
            /\ \A cte \in DOMAIN ler_res.val.val :
                    ler_res.val.val[cte] = UNION {nfesDe(lidas[i]) : i \in {j \in contam : lidas[j][1] = cte}}
            /\ ler_res.val = LerTodasAsNfesDesteCte(ler_arquivo)

\* C26 witness: the file holds the lines of one manifest with one invoice
\* and with the other, the later one first, and the map returned has both
C26_Witness ==
    /\ ler_res.some
    /\ \E i, j \in 1..Len(ler_arquivo.linhas) :
        /\ i < j
        /\ ler_arquivo.linhas[i].tokens = <<MkChave(1, 7), MkChave(6, 5)>>
        /\ ler_arquivo.linhas[j].tokens = <<MkChave(1, 7), MkChave(5, 5)>>
    /\ ler_res.val.val[MkChave(1, 7)] = {MkChave(5, 5), MkChave(6, 5)}

----------------------------------------------------------------------------
(* args.rs: Config *)

\* config.max_char of the run
MaxChar == 130
\* config.max_info of the run
MaxInfo == 1

LabelCte == <<67, 84, 45, 101>>
LabelNfe == <<78, 70, 45, 101>>

\* str::trim
RECURSIVE Trim(_)
Trim(v) ==
    IF v = <<>> THEN v
    ELSE IF EhEspaco(v[1]) THEN Trim(Tail(v))
    ELSE IF EhEspaco(v[Len(v)]) THEN Trim(SubSeq(v, 1, Len(v) - 1))
    ELSE v

\* the suffix of Config::append: format!(" [Info d{} {}: {}]", artigo, label, value)
Sufixo(value, label) ==
    LET artigo == IF label = LabelNfe THEN 97 ELSE 111
    IN  <<32, 91, 73, 110, 102, 111, 32, 100>> \o <<artigo, 32>> \o label
            \o <<58, 32>> \o value \o <<93>>

\* Config::append
ConfigAppend(field, value, label) ==
    LET v == Trim(value)
        tamanho_atual == Len(field)
        tamanho_sufixo == 14 + Len(label) + Len(v)
    IN  IF v = <<>> THEN field
        ELSE IF tamanho_atual + tamanho_sufixo < MaxChar THEN field \o Sufixo(v, label)
        ELSE field

\* a text of n characters
Texto(n) == [i \in 1..n |-> 120]

\* fields from well below the budget to the limit, an empty field, and empty,
\* blank, padded and plain values
InitAppend ==
    /\ ap_field \in {<<>>} \cup {Texto(n) : n \in (MaxChar - 26)..(MaxChar - 1)}
    /\ ap_value \in {<<>>, <<32>>, <<97>>, <<97, 98>>, <<32, 97, 98, 32>>, <<97, 32, 98>>}
    /\ ap_label \in {LabelCte, LabelNfe}
    /\ ap_res = None
    /\ en_row = None
    /\ en_info = None
    /\ en_resumos = [ctes |-> EmptyMap, nfes |-> EmptyMap]
    /\ en_iter = <<>>
    /\ en_max_info = 0
    /\ en_res = None
    /\ IdleValor
    /\ IdleLer
    /\ IdleDfs
    /\ IdleChave
    /\ IdleInfo
    /\ IdleAgg
    /\ IdleMerge
    /\ IdleRun

\* config.append(&mut field, value, label)
AppendAct ==
    /\ ~ap_res.some
    /\ ap_res' = Some(ConfigAppend(ap_field, ap_value, ap_label))
    /\ UNCHANGED <<ap_field, ap_value, ap_label, en_row, en_info, en_resumos, en_iter,
                   en_max_info, en_res,
                   varsValor, varsLer, varsDfs>>

NextAppend ==
    \/ AppendAct /\ UNCHANGED <<varsChave, varsInfo, varsAgg, varsMerge, varsRun>>

SpecAppend == InitAppend /\ [][NextAppend]_vars

\* C12: with a non-empty value, Config::append adds the labelled wrapper
\* exactly when the field with the wrapper is shorter than max_char, and
\* leaves the field as it was otherwise.
C12_AppendSeCouber ==
    (ap_res.some /\ Trim(ap_value) # <<>>) =>
        LET aumentado == ap_field \o Sufixo(Trim(ap_value), ap_label)
        IN  IF Len(aumentado) < MaxChar THEN ap_res.val = aumentado
                                        ELSE ap_res.val = ap_field

----------------------------------------------------------------------------
(* colunas.rs and processor.rs: the enrichment of one row *)

\* NfeMetadata::ncm_valido: some byte of the code is a digit 1..9
NcmValido(n) == \E i \in 1..Len(n.ncm) : n.ncm[i] \in 49..57

\* Colunas::injetar_metadata_cte (the columns the model carries)
InjetarMetadataCte(row, c) ==
    [row EXCEPT !.descricao_natureza = ConfigAppend(@, c.descricao_natureza, LabelCte)]

\* A mutant of InjetarMetadataNfe: the commodity code goes through the
\* budgeted append like the other columns.
InjetarMetadataNfeAnexa(row, n) ==
    [row EXCEPT !.descricao_mercadoria = ConfigAppend(@, n.descricao_mercadoria, LabelNfe),
                !.ncm = ConfigAppend(@, n.ncm, LabelNfe)]

\* A mutant of InjetarMetadataNfe: a code is taken only while the row has no
\* code with a non-zero digit.
InjetarMetadataNfeSemSobrescrever(row, n) ==
    [row EXCEPT !.descricao_mercadoria = ConfigAppend(@, n.descricao_mercadoria, LabelNfe),
                !.ncm = IF NcmValido(n) /\ ~NcmValido(row) THEN n.ncm ELSE @]

\* Colunas::injetar_metadata_nfe (the columns the model carries)
InjetarMetadataNfe(row, n) ==
    [row EXCEPT !.descricao_mercadoria = ConfigAppend(@, n.descricao_mercadoria, LabelNfe),
                !.ncm = IF NcmValido(n) THEN n.ncm ELSE @]

\* Ord of Chave: the byte arrays compared lexicographically
ChaveMenor(a, b) ==
    \E i \in 1..NUN_DIGITOS : a[i] < b[i] /\ \A j \in 1..(i - 1) : a[j] = b[j]

\* A mutant of Precede: the comparator stops at the totals and never looks
\* at the keys.
PrecedeSemChave(a, b, resumos) ==
    \/ resumos[a].item_valor_maximo > resumos[b].item_valor_maximo
    \/ /\ resumos[a].item_valor_maximo = resumos[b].item_valor_maximo
       /\ resumos[a].item_valor_total > resumos[b].item_valor_total

\* the comparator of sort_unstable_by says Less: max descending, then total
\* descending, then key ascending
Precede(a, b, resumos) ==
    \/ resumos[a].item_valor_maximo > resumos[b].item_valor_maximo
    \/ /\ resumos[a].item_valor_maximo = resumos[b].item_valor_maximo
       /\ \/ resumos[a].item_valor_total > resumos[b].item_valor_total
          \/ /\ resumos[a].item_valor_total = resumos[b].item_valor_total
             /\ ChaveMenor(a, b)

\* x put into a sorted Vec before the first element it precedes
RECURSIVE Inserir(_, _, _)
Inserir(sorted, x, resumos) ==
    IF sorted = <<>> THEN <<x>>
    ELSE IF Precede(x, sorted[1], resumos) THEN <<x>> \o sorted
    ELSE <<sorted[1]>> \o Inserir(Tail(sorted), x, resumos)

\* sort_unstable_by on the Vec collected in the iteration order of the set
RECURSIVE Ordenar(_, _, _, _)
Ordenar(vec, resumos, i, sorted) ==
    IF i > Len(vec) THEN sorted
    ELSE Ordenar(vec, resumos, i + 1, Inserir(sorted, vec[i], resumos))

\* iter().map(item_valor_total).sum()
RECURSIVE SomaTotal(_, _, _, _)
SomaTotal(ord, resumos, i, acc) ==
    IF i > Len(ord) THEN acc
    ELSE SomaTotal(ord, resumos, i + 1, FAdd(acc, resumos[ord[i]].item_valor_total))

\* f64_to_str: format!("{:.2}", valor.abs()); 0.01 is 200 DELTA, and the
\* hundredths are rounded to nearest, ties to even
F64ToStr(valor) ==
    LET u == DELTA * 200
        q == Abs(valor) \div u
        r == Abs(valor) % u
        centavos == IF 2 * r < u THEN q
                    ELSE IF 2 * r > u THEN q + 1
                    ELSE IF q % 2 = 0 THEN q ELSE q + 1
    IN  Decimal(centavos \div 100) \o <<46>>
            \o <<ByteZero + ((centavos % 100) \div 10), ByteZero + (centavos % 10)>>

\* the keys joined with ", "
RECURSIVE Join(_, _)
Join(ord, i) ==
    IF i > Len(ord) THEN <<>>
    ELSE (IF i > 1 THEN <<44, 32>> ELSE <<>>) \o AsStr(ord[i]) \o Join(ord, i + 1)

DocNfe == <<78, 70, 101>>
DocCte == <<67, 84, 101>>

\* format!("{doc}: {}, {} {outro}{}: [{}] de valor total = {}", chave, num,
\* plural, lista_chaves, f64_to_str(soma_total))
FormatarChaveDeAcesso(doc, outro, chave_, ord, soma_total) ==
    doc \o <<58, 32>> \o AsStr(chave_) \o <<44, 32>> \o Decimal(Len(ord)) \o <<32>> \o outro
        \o (IF Len(ord) > 1 THEN <<115>> ELSE <<>>) \o <<58, 32, 91>> \o Join(ord, 1)
        \o <<93, 32, 100, 101, 32, 118, 97, 108, 111, 114, 32, 116, 111, 116, 97, 108, 32, 61, 32>>
        \o F64ToStr(soma_total)

\* the loop over valid.iter().take(config.max_info): the metadata of the
\* kind expected is injected into the row
RECURSIVE Injetar(_, _, _, _, _, _)
Injetar(row, ord, resumos, i, tipo, max_info) ==
    IF i > Len(ord) \/ i > max_info THEN row
    ELSE LET m == resumos[ord[i]].metadata
             injetada ==
                IF m.some /\ m.val.tipo = tipo
                THEN IF tipo = "Cte" THEN InjetarMetadataCte(row, m.val.dados)
                                     ELSE InjetarMetadataNfe(row, m.val.dados)
                ELSE row
         IN  Injetar(injetada, ord, resumos, i + 1, tipo, max_info)

\* A mutant of AdicionarInfo: the cross-reference column is written before
\* the test for candidates with a summary.
AdicionarInfoEscreveAntes(row, relacionados, resumos, iter, doc, outro, tipo, max_info) ==
    IF row.chave \notin DOMAIN relacionados THEN [mudou |-> FALSE, row |-> row]
    ELSE LET validos == {c \in relacionados[row.chave] : c \in DOMAIN resumos}
             ord == Ordenar(EmOrdem(validos, iter), resumos, 1, <<>>)
             referida == [row EXCEPT !.chave_de_acesso =
                            FormatarChaveDeAcesso(doc, outro, row.chave, ord,
                                                  SomaTotal(ord, resumos, 1, 0))]
         IN  IF validos = {} THEN [mudou |-> FALSE, row |-> referida]
             ELSE [mudou |-> TRUE, row |-> Injetar(referida, ord, resumos, 1, tipo,
                                                    max_info)]

\* A mutant of AdicionarInfo: the cross-reference column covers only the
\* counterparts whose metadata is injected.
AdicionarInfoSoInjetados(row, relacionados, resumos, iter, doc, outro, tipo, max_info) ==
    IF row.chave \notin DOMAIN relacionados THEN [mudou |-> FALSE, row |-> row]
    ELSE LET validos == {c \in relacionados[row.chave] : c \in DOMAIN resumos}
             ord == Ordenar(EmOrdem(validos, iter), resumos, 1, <<>>)
             injetados == SubSeq(ord, 1, IF max_info < Len(ord) THEN max_info ELSE Len(ord))
             referida == [row EXCEPT !.chave_de_acesso =
                            FormatarChaveDeAcesso(doc, outro, row.chave, injetados,
                                                  SomaTotal(injetados, resumos, 1, 0))]
         IN  IF validos = {} THEN [mudou |-> FALSE, row |-> row]
             ELSE [mudou |-> TRUE, row |-> Injetar(referida, ord, resumos, 1, tipo,
                                                    max_info)]

\* adicionar_info_de_ctes_em_nfe and adicionar_info_de_nfes_em_cte, which
\* differ in the map read, the labels and the metadata kind: the result is
\* the bool returned and the row as it was left; iter is the order in which
\* the HashSet of related keys is iterated
AdicionarInfo(row, relacionados, resumos, iter, doc, outro, tipo, max_info) ==
    IF row.chave \notin DOMAIN relacionados THEN [mudou |-> FALSE, row |-> row]
    ELSE LET validos == {c \in relacionados[row.chave] : c \in DOMAIN resumos}
             ord == Ordenar(EmOrdem(validos, iter), resumos, 1, <<>>)
             referida == [row EXCEPT !.chave_de_acesso =
                            FormatarChaveDeAcesso(doc, outro, row.chave, ord,
                                                  SomaTotal(ord, resumos, 1, 0))]
         IN  IF validos = {} THEN [mudou |-> FALSE, row |-> row]
             ELSE [mudou |-> TRUE, row |-> Injetar(referida, ord, resumos, 1, tipo,
                                                    max_info)]

AdicionarInfoDeCtesEmNfe(row_nfe, max_info, info, cte_info_, iter) ==
    AdicionarInfo(row_nfe, info.nfe_ctes, cte_info_, iter, DocNfe, DocCte, "Cte", max_info)

AdicionarInfoDeNfesEmCte(row_cte, max_info, info, nfe_info_, iter) ==
    AdicionarInfo(row_cte, info.cte_nfes, nfe_info_, iter, DocCte, DocNfe, "Nfe", max_info)

\* what one iteration of the loop does with the row: mudou and the row
EnriquecerRegistro(row, max_info, info, cte_info_, nfe_info_, iter) ==
    IF ChaveCancelada(row) THEN [mudou |-> FALSE, row |-> row]
    ELSE IF IsNfe(row.chave) THEN AdicionarInfoDeCtesEmNfe(row, max_info, info, cte_info_, iter)
    ELSE IF IsCte(row.chave) THEN AdicionarInfoDeNfesEmCte(row, max_info, info, nfe_info_, iter)
    ELSE [mudou |-> FALSE, row |-> row]

----------------------------------------------------------------------------
(* The enrichment of one row on its own *)

\* the manifests and invoices a row of the scenarios is related to
ContrapartesCte == { MkChave(1, 7), MkChave(2, 7), MkChave(3, 7) }
ContrapartesNfe == { MkChave(5, 5), MkChave(6, 5) }

\* the summary get_summaries leaves for a key: its values and the metadata of
\* the row of the maximum, told apart by the digit of the key
ResumoCte(k, maximo, total) ==
    [num_de_itens |-> 1, item_valor_total |-> total, item_valor_maximo |-> maximo,
     metadata |-> Some(MetaCte([descricao_natureza |-> <<k[1] + 49>>]))]

ResumoNfe(k, maximo, total, ncm_) ==
    [num_de_itens |-> 1, item_valor_total |-> total, item_valor_maximo |-> maximo,
     metadata |-> Some(MetaNfe([descricao_mercadoria |-> <<k[1] + 49>>, ncm |-> ncm_]))]

\* 1.024 and its double and half, in the unit of the f64 model
Valor == 5 * Pow2(13)

ResumosCtePossiveis(k) ==
    { ResumoCte(k, Valor, Valor), ResumoCte(k, Valor, 2 * Valor),
      ResumoCte(k, Valor \div 2, 2 * Valor) }

\* the invoices carry the codes "84" and "85", "00" or no code
ResumosNfePossiveis(k) ==
    { ResumoNfe(k, Valor, Valor, <<56, k[1] - 1>>), ResumoNfe(k, Valor, Valor, <<48, 48>>),
      ResumoNfe(k, Valor \div 2, Valor, <<>>) }

\* the maps with any of the keys present, each with one of its summaries
MapasDe(possiveis) ==
    UNION { { m \in [D -> UNION { possiveis[k] : k \in D }] :
                \A k \in D : m[k] \in possiveis[k] } : D \in SUBSET DOMAIN possiveis }

\* the relationship maps with at most the entry of the key k
RelacoesDe(k, K) == {EmptyMap} \cup { [x \in {k} |-> R] : R \in SUBSET K }

\* every order of the keys of K
Permutacoes(K) ==
    { p \in [1..Cardinality(K) -> K] : \A i, j \in 1..Cardinality(K) : p[i] = p[j] => i = j }

InfoDe(nfe_ctes_, cte_nfes_) ==
    [nfe_ctes |-> nfe_ctes_, cte_nfes |-> cte_nfes_, cte_complementar |-> EmptyMap,
     numero_total_de_linhas |-> 0]

InitEnriquecer ==
    /\ \/ /\ en_row \in { Linha(MkChave(5, 5), "Não", Some(2), <<97>>, <<>>),
                          Linha(MkChave(5, 5), "Sim", Some(2), <<97>>, <<>>),
                          Linha(MkChave(5, 5), "Não", Some(2), Texto(MaxChar - 19), <<>>),
                          Linha(MkChave(9, 9), "Não", Some(2), <<97>>, <<>>) }
          /\ en_info \in { InfoDe(r, EmptyMap) : r \in RelacoesDe(MkChave(5, 5), ContrapartesCte) }
          /\ en_resumos \in { [ctes |-> m, nfes |-> EmptyMap] :
                                m \in MapasDe([k \in ContrapartesCte |-> ResumosCtePossiveis(k)]) }
          /\ en_iter \in Permutacoes(ContrapartesCte)
       \/ /\ en_row \in { Linha(MkChave(1, 7), "Não", Some(2), <<97>>, <<48, 49>>),
                          Linha(MkChave(1, 7), "S", Some(2), <<97>>, <<48, 49>>) }
          /\ en_info \in { InfoDe(EmptyMap, r) : r \in RelacoesDe(MkChave(1, 7), ContrapartesNfe) }
          /\ en_resumos \in { [ctes |-> EmptyMap, nfes |-> m] :
                                m \in MapasDe([k \in ContrapartesNfe |-> ResumosNfePossiveis(k)]) }
          /\ en_iter \in Permutacoes(ContrapartesNfe)
    /\ en_max_info \in 0..(MaxInfo + 1)
    /\ en_res = None
    /\ ap_field = <<>>
    /\ ap_value = <<>>
    /\ ap_label = <<>>
    /\ ap_res = None
    /\ IdleValor
    /\ IdleLer
    /\ IdleDfs
    /\ IdleChave
    /\ IdleInfo
    /\ IdleAgg
    /\ IdleMerge
    /\ IdleRun

\* the body of the loop of enriquecer_arquivo for the row: the cancelled
\* check, then the enrichment of its kind
EnriquecerAct ==
    /\ ~en_res.some
    /\ en_res' = Some(EnriquecerRegistro(en_row, en_max_info, en_info, en_resumos.ctes,
                                         en_resumos.nfes, en_iter))
    /\ UNCHANGED <<ap_field, ap_value, ap_label, ap_res, en_row, en_info, en_resumos, en_iter,
                   en_max_info, varsValor, varsLer, varsDfs>>

NextEnriquecer ==
    \/ EnriquecerAct /\ UNCHANGED <<varsChave, varsInfo, varsAgg, varsMerge, varsRun>>

SpecEnriquecer == InitEnriquecer /\ [][NextEnriquecer]_vars

\* the map of related keys and the map of summaries the row's kind reads
RelacionadosDaLinha == IF IsNfe(en_row.chave) THEN en_info.nfe_ctes ELSE en_info.cte_nfes
ResumosDaLinha == IF IsNfe(en_row.chave) THEN en_resumos.ctes ELSE en_resumos.nfes

\* the related keys of the row that have a summary
Candidatos ==
    IF en_row.chave \in DOMAIN RelacionadosDaLinha
    THEN {c \in RelacionadosDaLinha[en_row.chave] : c \in DOMAIN ResumosDaLinha}
    ELSE {}

\* a ranks before b: greater max, then greater total, then smaller key
ClassificaAntes(a, b) ==
    LET ra == ResumosDaLinha[a]
        rb == ResumosDaLinha[b]
        primeira == CHOOSE i \in 1..NUN_DIGITOS : a[i] # b[i] /\ \A j \in 1..(i - 1) : a[j] = b[j]
    IN  IF ra.item_valor_maximo # rb.item_valor_maximo
        THEN ra.item_valor_maximo > rb.item_valor_maximo
        ELSE IF ra.item_valor_total # rb.item_valor_total
             THEN ra.item_valor_total > rb.item_valor_total
             ELSE a # b /\ a[primeira] < b[primeira]

\* the candidates in rank order, and the first min(max_info, n) of them
Classificados ==
    [i \in 1..Cardinality(Candidatos) |->
        CHOOSE k \in Candidatos : Cardinality({j \in Candidatos : ClassificaAntes(j, k)}) = i - 1]
Primeiros ==
    SubSeq(Classificados, 1, IF en_max_info < Cardinality(Candidatos) THEN en_max_info
                             ELSE Cardinality(Candidatos))

\* the metadata of the candidates of cand injected one after the other
RECURSIVE InjetarTodos(_, _, _)
InjetarTodos(row, cand, i) ==
    IF i > Len(cand) THEN row
    ELSE LET m == ResumosDaLinha[cand[i]].metadata.val
         IN  InjetarTodos(IF m.tipo = "Cte" THEN InjetarMetadataCte(row, m.dados)
                                            ELSE InjetarMetadataNfe(row, m.dados),
                          cand, i + 1)

\* C11: in both directions, the columns that receive metadata are those of
\* the row as read with the metadata of the first min(max_info, n) candidates
\* injected in rank order (max descending, total descending, key ascending),
\* whatever the iteration order of the set of related keys
C11_PrimeirosPorOrdem ==
    (en_res.some /\ en_res.val.mudou) =>
        LET esperado == InjetarTodos(en_row, Primeiros, 1)
        IN  /\ en_res.val.row.descricao_natureza = esperado.descricao_natureza
            /\ en_res.val.row.descricao_mercadoria = esperado.descricao_mercadoria
            /\ en_res.val.row.ncm = esperado.ncm

\* C11 witness: an invoice row had more candidates than max_info, two of
\* them equal in max and total, the set was iterated with the first-ranked
\* candidate last, and that candidate's metadata was the one injected
C11_Witness ==
    /\ en_res.some
    /\ en_res.val.mudou
    /\ IsNfe(en_row.chave)
    /\ en_max_info > 0
    /\ Cardinality(Candidatos) > en_max_info
    /\ \E a, b \in Candidatos :
          /\ a # b
          /\ ResumosDaLinha[a].item_valor_maximo = ResumosDaLinha[b].item_valor_maximo
          /\ ResumosDaLinha[a].item_valor_total = ResumosDaLinha[b].item_valor_total
          /\ Classificados[1] = a
    /\ en_iter[Len(en_iter)] = Classificados[1]
    /\ en_res.val.row.descricao_natureza # en_row.descricao_natureza

\* the text columns of a row that the enrichment may write
ColunasEscritas(row) ==
    {row.chave_de_acesso, row.descricao_natureza, row.descricao_mercadoria, row.ncm}

\* C13: when every column of the row as read is shorter than max_char, every
\* column the enrichment writes (the cross-reference column chave_de_acesso,
\* the columns that receive metadata and the commodity code) is shorter than
\* max_char after it, whatever the number of related counterparts
C13_SemEstouro ==
    (en_res.some /\ \A c \in ColunasEscritas(en_row) : Len(c) < MaxChar) =>
        \A c \in ColunasEscritas(en_res.val.row) : Len(c) < MaxChar

\* the commodity code of the invoice summary of the candidate k
NcmDoCandidato(k) == ResumosDaLinha[k].metadata.val.dados.ncm

\* some character of the code is a digit other than zero
TemDigitoNaoZero(codigo) ==
    \E i \in 1..Len(codigo) : codigo[i] >= ByteZero + 1 /\ codigo[i] <= ByteZero + 9

\* C14: a manifest row enriched from invoice summaries ends with exactly the
\* code of the last injected invoice whose code has a non-zero digit
\* (replaced: no wrapper, no length test), and with its own code as read when
\* no injected invoice has such a code
C14_NcmSobrescrito ==
    (en_res.some /\ en_res.val.mudou /\ IsCte(en_row.chave)) =>
        LET comCodigo == {i \in 1..Len(Primeiros) : TemDigitoNaoZero(NcmDoCandidato(Primeiros[i]))}
            ultimo == CHOOSE i \in comCodigo : \A j \in comCodigo : j <= i
        IN  IF comCodigo = {} THEN en_res.val.row.ncm = en_row.ncm
            ELSE en_res.val.row.ncm = NcmDoCandidato(Primeiros[ultimo])

\* C14 witness: a manifest row received the code of an invoice, which has a
\* non-zero digit and differs from the row's own
C14_Witness ==
    /\ en_res.some
    /\ en_res.val.mudou
    /\ IsCte(en_row.chave)
    /\ Len(Primeiros) > 0
    /\ TemDigitoNaoZero(NcmDoCandidato(Primeiros[1]))
    /\ NcmDoCandidato(Primeiros[1]) # en_row.ncm
    /\ en_res.val.row.ncm = NcmDoCandidato(Primeiros[1])

\* C25: a changed row has its cross-reference column overwritten with
\* "<type>: <key>, <N> <other type>[s]: [<keys>] de valor total = <total>",
\* where N counts all the related keys that have a summary (not only the
\* max_info injected ones), the list names each of them once in rank order,
\* joined with ", ", and the total is the sum of their totals, taken in that
\* order, with 2 decimals; also when max_info is 0.
C25_ReferenciaCruzada ==
    (en_res.some /\ en_res.val.mudou) =>
        LET n == Cardinality(Candidatos)
            tipo == IF IsNfe(en_row.chave) THEN <<78, 70, 101>> ELSE <<67, 84, 101>>
            outro == IF IsNfe(en_row.chave) THEN <<67, 84, 101>> ELSE <<78, 70, 101>>
            soma == SomaTotal(Classificados, ResumosDaLinha, 1, 0)
        IN  /\ n >= 1
            /\ en_res.val.row.chave_de_acesso =
                    tipo \o <<58, 32>> \o en_row.chave \o <<44, 32>> \o Decimal(n) \o <<32>>
                        \o outro \o (IF n > 1 THEN <<115>> ELSE <<>>) \o <<58, 32, 91>>
                        \o Join(Classificados, 1)
                        \o <<93, 32, 100, 101, 32, 118, 97, 108, 111, 114, 32, 116, 111, 116, 97,
                              108, 32, 61, 32>>
                        \o F64ToStr(soma)

\* C25 witness: with max_info = 0 a row with two or more related keys that
\* have a summary was changed: no metadata column was touched and the
\* cross-reference column is no longer the one read
C25_Witness ==
    /\ en_res.some
    /\ en_res.val.mudou
    /\ en_max_info = 0
    /\ Cardinality(Candidatos) >= 2
    /\ en_res.val.row.descricao_natureza = en_row.descricao_natureza
    /\ en_res.val.row.descricao_mercadoria = en_row.descricao_mercadoria
    /\ en_res.val.row.chave_de_acesso # en_row.chave_de_acesso
    /\ Len(en_res.val.row.chave_de_acesso) > 2 * NUN_DIGITOS

\* the commodity code of the row after the first i injected candidates
RECURSIVE CodigoApos(_)
CodigoApos(i) ==
    IF i = 0 THEN en_row.ncm
    ELSE IF TemDigitoNaoZero(NcmDoCandidato(Primeiros[i])) THEN NcmDoCandidato(Primeiros[i])
    ELSE CodigoApos(i - 1)

\* C29: a manifest row enriched from several invoice candidates takes, one
\* injected candidate after the other in rank order, the code of each
\* candidate whose code has a non-zero digit, each replacing the one before;
\* it ends with the code of the last such candidate among the first max_info,
\* and with its own code when there is none.
C29_UltimoCodigoValido ==
    (en_res.some /\ en_res.val.mudou /\ IsCte(en_row.chave) /\ Cardinality(Candidatos) >= 2) =>
        en_res.val.row.ncm = CodigoApos(Len(Primeiros))

\* C29 witness: two invoices were injected, both with a code that has a
\* non-zero digit, the codes differ, and the row ends with the second one
C29_Witness ==
    /\ en_res.some
    /\ en_res.val.mudou
    /\ IsCte(en_row.chave)
    /\ Len(Primeiros) = 2
    /\ TemDigitoNaoZero(NcmDoCandidato(Primeiros[1]))
    /\ TemDigitoNaoZero(NcmDoCandidato(Primeiros[2]))
    /\ NcmDoCandidato(Primeiros[1]) # NcmDoCandidato(Primeiros[2])
    /\ en_res.val.row.ncm = NcmDoCandidato(Primeiros[2])

\* C15: a cancelled row, a row whose key has no entry of related keys, and a
\* row none of whose related keys has a summary are reported unchanged and
\* keep every column as read; any other invoice or manifest row is reported
\* changed
C15_InalteradaOuMudou ==
    en_res.some =>
        IF ChaveCancelada(en_row) \/ Candidatos = {}
        THEN ~en_res.val.mudou /\ en_res.val.row = en_row
        ELSE (IsNfe(en_row.chave) \/ IsCte(en_row.chave)) => en_res.val.mudou

\* C15 witness: a row that is not cancelled has related keys in the graph,
\* none of them has a summary although other keys do, and it came out
\* unchanged
C15_Witness ==
    /\ en_res.some
    /\ ~ChaveCancelada(en_row)
    /\ en_row.chave \in DOMAIN RelacionadosDaLinha
    /\ RelacionadosDaLinha[en_row.chave] # {}
    /\ DOMAIN ResumosDaLinha # {}
    /\ Candidatos = {}
    /\ ~en_res.val.mudou
    /\ en_res.val.row = en_row

----------------------------------------------------------------------------
(* main.rs: one run of the program *)

\* lines of each relationship file
NumArq == 2
\* data rows of the dataset of the run
NumExec == 2

\* a manifest with an invoice; a manifest with an invoice and a manifest
\* token; a line whose first token is an invoice (skipped)
LinhasCteNfes ==
    { <<MkChave(1, 7), MkChave(5, 5)>>,
      <<MkChave(2, 7), MkChave(6, 5), MkChave(3, 7)>>,
      <<MkChave(5, 5), MkChave(1, 7)>> }

\* two manifests; two manifests and a third token (ignored); the same
\* manifest twice (skipped)
LinhasComplementares ==
    { <<MkChave(1, 7), MkChave(2, 7)>>,
      <<MkChave(3, 7), MkChave(2, 7), MkChave(4, 7)>>,
      <<MkChave(1, 7), MkChave(1, 7)>> }

\* the iteration orders of the complement map the run is checked with: the
\* keys ascending and the keys descending
OrdensDaExecucao ==
    { <<MkChave(1, 7), MkChave(2, 7), MkChave(3, 7), MkChave(4, 7)>>,
      <<MkChave(4, 7), MkChave(3, 7), MkChave(2, 7), MkChave(1, 7)>> }

\* the iteration orders of the related-key sets the run is checked with
OrdensDeIteracao ==
    { <<MkChave(1, 7), MkChave(2, 7), MkChave(3, 7), MkChave(4, 7), MkChave(5, 5), MkChave(6, 5)>>,
      <<MkChave(6, 5), MkChave(5, 5), MkChave(4, 7), MkChave(3, 7), MkChave(2, 7), MkChave(1, 7)>> }

\* struct Informacoes as one value
Info ==
    [nfe_ctes |-> nfe_ctes, cte_nfes |-> cte_nfes, cte_complementar |-> cte_complementar,
     numero_total_de_linhas |-> numero_total_de_linhas]

Init ==
    /\ pc = "inicio"
    /\ arq_cte_nfes \in {Arquivo(l) : l \in [1..NumArq -> LinhasCteNfes]}
    /\ arq_complementares \in {Arquivo(l) : l \in [1..NumArq -> LinhasComplementares]}
    /\ linhas \in [1..NumExec -> RegistrosDaExecucao]
    /\ cte_info = EmptyMap
    /\ nfe_info = EmptyMap
    /\ alteracoes = 0
    /\ saida = <<>>
    /\ proxima = 0
    /\ parciais = EmptyBag
    /\ resultado = None
    /\ fase = "idle"
    /\ IdleInfo
    /\ IdleChave
    /\ IdleMerge
    /\ IdleFun

\* from_files, step 1: rayon::join of the two loaders, (res1?, res2?); the
\* struct is built with the two maps and the defaults of the other fields
FromFilesCarregarAct ==
    /\ pc = "inicio"
    /\ LET res1 == LerTodasAsNfesDesteCte(arq_cte_nfes)
           res2 == LerChaveComplementarDesteCte(arq_complementares)
       IN  IF res1.ok /\ res2.ok
           THEN /\ cte_nfes' = res1.val
                /\ cte_complementar' = res2.val
                /\ nfe_ctes' = EmptyMap
                /\ numero_total_de_linhas' = 0
                /\ pc' = "carregado"
           ELSE /\ pc' = "erro"
                /\ UNCHANGED <<nfe_ctes, cte_nfes, cte_complementar, numero_total_de_linhas>>
    /\ UNCHANGED <<antes, pcI, varsAgg, arq_cte_nfes, arq_complementares, cte_info,
                   nfe_info, alteracoes, saida>>

\* from_files, step 2: info.expandir_cte_complementar()
FromFilesExpandirAct ==
    /\ pc = "carregado"
    /\ \E ordem \in OrdensDaExecucao :
        cte_complementar' = ExpandirCteComplementar(cte_complementar, ordem)
    /\ pc' = "expandido"
    /\ UNCHANGED <<nfe_ctes, cte_nfes, numero_total_de_linhas, antes, pcI, varsAgg,
                   arq_cte_nfes, arq_complementares, cte_info, nfe_info, alteracoes, saida>>

\* from_files, step 3: info.propagar_nfes_para_cte_complementares()
FromFilesPropagarAct ==
    /\ pc = "expandido"
    /\ cte_nfes' = PropagarNfes(cte_nfes, cte_complementar)
    /\ pc' = "propagado"
    /\ UNCHANGED <<nfe_ctes, cte_complementar, numero_total_de_linhas, antes, pcI, varsAgg,
                   arq_cte_nfes, arq_complementares, cte_info, nfe_info, alteracoes, saida>>

\* from_files, step 4: info.get_nfe_ctes(), then Ok(info)
FromFilesInverterAct ==
    /\ pc = "propagado"
    /\ nfe_ctes' = GetNfeCtes(nfe_ctes, cte_nfes)
    /\ pc' = "construido"
    /\ UNCHANGED <<cte_nfes, cte_complementar, numero_total_de_linhas, antes, pcI, varsAgg,
                   arq_cte_nfes, arq_complementares, cte_info, nfe_info, alteracoes, saida>>

\* run: let (cte_info, nfe_info) = get_summaries(...)
GetSummariesAct ==
    /\ pc = "construido"
    /\ LET r == GetSummaries(linhas)
       IN  IF r.ok
           THEN /\ cte_info' = r.val.ctes
                /\ nfe_info' = r.val.nfes
                /\ pc' = "resumido"
           ELSE /\ pc' = "erro"
                /\ UNCHANGED <<cte_info, nfe_info>>
    /\ UNCHANGED <<varsInfo, varsAgg, arq_cte_nfes, arq_complementares, alteracoes, saida>>

\* enriquecer_arquivo up to its loop: reader and writer are opened and the
\* line counter starts at 1 for the header
EnriquecerAbrirAct ==
    /\ pc = "resumido"
    /\ numero_total_de_linhas' = 1
    /\ alteracoes' = 0
    /\ saida' = <<>>
    /\ proxima' = 1
    /\ pc' = "gravando"
    /\ UNCHANGED <<nfe_ctes, cte_nfes, cte_complementar, antes, pcI, linhas, parciais,
                   resultado, fase, arq_cte_nfes, arq_complementares, cte_info, nfe_info>>

\* A mutant of InfoAposRegistro: the index entry of the row's key is taken
\* out of the graph once the row is read.
InfoAposRegistroConsumindo(info, row) ==
    [info EXCEPT !.numero_total_de_linhas = @ + 1,
                 !.nfe_ctes = [k \in DOMAIN @ \ {row.chave} |-> @[k]]]

\* what one iteration of the loop of enriquecer_arquivo does to the
\* Informacoes it holds mutably: the line counter is incremented
InfoAposRegistro(info, row) ==
    [info EXCEPT !.numero_total_de_linhas = @ + 1]

\* the header record the writer makes of the field names of Colunas
Cabecalho == [leitura |-> "cabecalho"]

\* Serialize for Colunas: the key as Serialize for Chave writes it, the text
\* columns as they are
SerializarLinha(row) == Registro(Serialize(row.chave), row)

\* the writer (has_headers(true)) after one iteration: wtr.serialize(row)
\* for a changed row, which writes the header before the first record it
\* serializes (no record was serialized yet exactly when alteracoes is 0),
\* and wtr.write_record(&record) for the others, which writes the record read
Escrever(saida_, alteracoes_, record, r) ==
    IF r.mudou
    THEN (IF alteracoes_ = 0 THEN Append(saida_, Cabecalho) ELSE saida_)
            \o <<SerializarLinha(r.row)>>
    ELSE Append(saida_, record)

\* one iteration of the loop of enriquecer_arquivo: a record is read,
\* counted, deserialized, enriched or not, and written; an error of the
\* reader or of the deserialization ends the run
EnriquecerLinhaAct ==
    /\ pc = "gravando"
    /\ proxima <= Len(linhas)
    /\ \E iter \in OrdensDeIteracao :
       LET record == linhas[proxima]
           row == Deserializar(record)
           info == IF record.leitura # "ok" THEN Info
                   ELSE IF row.ok THEN InfoAposRegistro(Info, row.val)
                   ELSE [Info EXCEPT !.numero_total_de_linhas = @ + 1]
       IN  /\ nfe_ctes' = info.nfe_ctes
           /\ cte_nfes' = info.cte_nfes
           /\ cte_complementar' = info.cte_complementar
           /\ numero_total_de_linhas' = info.numero_total_de_linhas
           /\ IF record.leitura = "ok" /\ row.ok
              THEN LET r == EnriquecerRegistro(row.val, MaxInfo, info, cte_info, nfe_info, iter)
                   IN  /\ saida' = Escrever(saida, alteracoes, record, r)
                       /\ alteracoes' = IF r.mudou THEN alteracoes + 1 ELSE alteracoes
                       /\ pc' = pc
              ELSE /\ pc' = "erro"
                   /\ UNCHANGED <<saida, alteracoes>>
    /\ proxima' = proxima + 1
    /\ UNCHANGED <<antes, pcI, linhas, parciais, resultado, fase, arq_cte_nfes,
                   arq_complementares, cte_info, nfe_info>>

\* the loop ends: flush, Ok((output_path, alteracoes)); run removes the
\* output when nothing changed and keeps it otherwise
EnriquecerConcluirAct ==
    /\ pc = "gravando"
    /\ proxima > Len(linhas)
    /\ pc' = IF alteracoes = 0 THEN "removido" ELSE "gerado"
    /\ UNCHANGED <<varsInfo, varsAgg, arq_cte_nfes, arq_complementares, cte_info,
                   nfe_info, alteracoes, saida>>

Next ==
    \/ FromFilesCarregarAct /\ UNCHANGED <<varsChave, varsMerge, varsFun>>
    \/ FromFilesExpandirAct /\ UNCHANGED <<varsChave, varsMerge, varsFun>>
    \/ FromFilesPropagarAct /\ UNCHANGED <<varsChave, varsMerge, varsFun>>
    \/ FromFilesInverterAct /\ UNCHANGED <<varsChave, varsMerge, varsFun>>
    \/ GetSummariesAct /\ UNCHANGED <<varsChave, varsMerge, varsFun>>
    \/ EnriquecerAbrirAct /\ UNCHANGED <<varsChave, varsMerge, varsFun>>
    \/ EnriquecerLinhaAct /\ UNCHANGED <<varsChave, varsMerge, varsFun>>
    \/ EnriquecerConcluirAct /\ UNCHANGED <<varsChave, varsMerge, varsFun>>

Spec == Init /\ [][Next]_vars

\* the positions of run() in the order the code goes through them
OrdemDasFases ==
    { <<"inicio", "carregado">>, <<"carregado", "expandido">>,
      <<"expandido", "propagado">>, <<"propagado", "construido">>,
      <<"construido", "resumido">>, <<"resumido", "gravando">>,
      <<"gravando", "removido">>, <<"gravando", "gerado">>,
      <<"inicio", "erro">>, <<"construido", "erro">>, <<"gravando", "erro">> }

\* C4: the three relationship maps change only during the construction in
\* from_files, in the fixed order load (both files), closure, propagation,
\* inversion: the complement map only in the load and the closure, cte_nfes
\* only in the load and the propagation, nfe_ctes only in the inversion; the
\* aggregation pass and the enrichment pass leave the three maps as built.
C4_MapasSoNaConstrucao ==
    [][ /\ (cte_complementar' # cte_complementar => pc \in {"inicio", "carregado"})
        /\ (cte_nfes' # cte_nfes => pc \in {"inicio", "expandido"})
        /\ (nfe_ctes' # nfe_ctes => pc = "propagado")
        /\ (pc' # pc => <<pc, pc'>> \in OrdemDasFases)
        /\ (pc \in {"construido", "resumido", "gravando"} =>
                UNCHANGED <<nfe_ctes, cte_nfes, cte_complementar>>) ]_vars

\* a finished run whose graph has the three maps filled, one manifest having
\* its invoices by propagation only, and whose enrichment read every row and
\* changed one
C4_Witness ==
    /\ pc = "gerado"
    /\ numero_total_de_linhas = Len(linhas) + 1
    /\ alteracoes > 0
    /\ cte_complementar # EmptyMap
    /\ nfe_ctes # EmptyMap
    /\ \E c \in DOMAIN cte_nfes : c \notin DOMAIN LerTodasAsNfesDesteCte(arq_cte_nfes).val

\* the data records of the output file, in the order written
DadosDaSaida == SelectSeq(saida, LAMBDA r : r # Cabecalho)

\* C16: the file enriquecer_arquivo leaves has the header as its first
\* record and then one record per data row of the input, in the input order,
\* whichever rows were changed
C16_CabecalhoPrimeiro ==
    pc = "gerado" =>
        /\ Len(saida) = Len(linhas) + 1
        /\ saida[1] = Cabecalho
        /\ \A i \in 1..Len(linhas) :
            /\ saida[i + 1] # Cabecalho
            /\ ChaveNew(saida[i + 1].chave) = ChaveNew(linhas[i].chave)

\* C17: in the record written for a row that the enrichment changed, the
\* columns the enrichment does not write (the key column, the cancelled flag,
\* the item value) have the content of the record read
C17_ColunasNaoEscritas ==
    pc = "gerado" =>
        \A i \in 1..Len(linhas) :
            DadosDaSaida[i] # linhas[i] =>
                /\ DadosDaSaida[i].chave = linhas[i].chave
                /\ DadosDaSaida[i].cancelada = linhas[i].cancelada
                /\ DadosDaSaida[i].valor_item = linhas[i].valor_item

----------------------------------------------------------------------------
(* Informacoes::from_files on its own, with sources that fail *)

\* the sources of NumArq lines with any of their lines unreadable, and the
\* source that cannot be opened
ArquivosDe(linhas_) ==
    {ArquivoAusente}
        \cup { [aberto |-> TRUE, linhas |-> l] :
                l \in [1..NumArq -> {LinhaIlegivel}
                                        \cup {[lida |-> TRUE, tokens |-> t] : t \in linhas_}] }

InitFromFiles ==
    /\ pc = "inicio"
    /\ arq_cte_nfes \in ArquivosDe(LinhasCteNfes)
    /\ arq_complementares \in ArquivosDe(LinhasComplementares)
    /\ linhas = <<>>
    /\ cte_info = EmptyMap
    /\ nfe_info = EmptyMap
    /\ alteracoes = 0
    /\ saida = <<>>
    /\ proxima = 0
    /\ parciais = EmptyBag
    /\ resultado = None
    /\ fase = "idle"
    /\ IdleInfo
    /\ IdleChave
    /\ IdleMerge
    /\ IdleFun

NextFromFiles ==
    \/ FromFilesCarregarAct /\ UNCHANGED <<varsChave, varsMerge, varsFun>>
    \/ FromFilesExpandirAct /\ UNCHANGED <<varsChave, varsMerge, varsFun>>
    \/ FromFilesPropagarAct /\ UNCHANGED <<varsChave, varsMerge, varsFun>>
    \/ FromFilesInverterAct /\ UNCHANGED <<varsChave, varsMerge, varsFun>>

SpecFromFiles == InitFromFiles /\ [][NextFromFiles]_vars

\* the source could not be opened, or one of its lines could not be read
FalhaDeCarga(path) == ~path.aberto \/ \E i \in 1..Len(path.linhas) : ~path.linhas[i].lida

\* C20: when either relationship source cannot be opened or has a line that
\* cannot be read, from_files returns an error and builds no graph: the run
\* goes from its start to the error and nowhere else
C20_ErroDeCargaFatal ==
    (FalhaDeCarga(arq_cte_nfes) \/ FalhaDeCarga(arq_complementares)) =>
        pc \in {"inicio", "erro"}

=============================================================================
